---- MODULE Spec2Model ----
(***************************************************************************)
(* Model of the literature-reader backend (src/server).                    *)
(*                                                                         *)
(*   - the Layout Normalizer, routes.py parse_mineru_layout_from_data      *)
(*   - the Translation Client, translator_llm.py translate_with_llm        *)
(*                                                                         *)
(* Encoding of JSON values.  A Python str is a sequence of one-character   *)
(* strings (so that strip and join are computed, not assumed).  A dict is  *)
(* a record with kind = "dict" whose fields are optional values: <<>> is   *)
(* an absent key and <<v>> a key holding v.  A list is a sequence.  Junk   *)
(* is a truthy scalar (a number) found where a dict or a list is expected. *)
(***************************************************************************)
EXTENDS Integers, Sequences, FiniteSets, TLC

VARIABLES
    mineru_data,   \* the raw JSON value handed to the normalizer
    layout,        \* the value parse_mineru_layout_from_data returned
    raised,        \* TRUE iff the call let an exception escape
    pc,            \* "start" before the call, "done" after it, "idle"
    QWEN_API_KEY,  \* TRUE iff the primary credential is configured
    OPENAI_API_KEY, \* TRUE iff the secondary credential is configured
    has_cache,     \* TRUE iff get_cache() returns a cache object
    cache,         \* the cache: key -> None or Some(value)
    calls,         \* translate_with_llm calls made so far
    t_remote,      \* chat completion requests the last call issued
    t_reads,       \* cache.get calls the last call made
    t_writes,      \* cache.set calls the last call made
    t_text,        \* the last call's text
    t_lang,        \* the last call's target_lang
    t_ret,         \* the last call's return value, None if it raised
    t_err,         \* the category of the failure it raised, "" if none
    t_provider,    \* the credential its remote call used, "none" if no call
    request_layout,    \* translate_layout: the layout array as received
    req_layout,        \* the layout array, updated in place by the pass
    req_target_lang,   \* the request's target_lang
    force_retranslate, \* the request's force_retranslate
    block_idx,         \* blocks the loop has gone through
    translated_count,
    skipped_count,
    failed_count,
    first_error,       \* None, or the message of the first failure
    block_log,         \* per block gone through: what the loop did with it
    tl_pc,             \* "idle", "start", "loop", "done", "rejected", "aborted"
    max_wait_time,     \* wait_for_task_completion: seconds to wait at most
    poll_interval,     \* seconds slept between two polls
    start_time,        \* time.time() when the wait began
    now,               \* the clock, in seconds
    poll_result,       \* what the last get_task_result call gave
    wait_ret,          \* the result the wait returned, None if none
    wait_err,          \* the failure the wait raised, "" if none
    wait_err_msg,      \* the err_msg a task failure carries, "" otherwise
    wait_pc,           \* "idle", "poll", "sleep", "returned", "raised"
    extract_dir,       \* the files under MINERU_FOLDER/<id>
    dir_before,        \* extract_dir when the last operation began
    download,          \* what the last operation downloaded, if anything
    zip_info,          \* the outcome of its download_and_extract_zip call
    query_poll,        \* what the status endpoint answered the last query
    response,          \* the envelope the last query handler sent
    client_error,      \* the failure the Remote Task Client raised in it
    last_op,           \* "none", "fetch", "task", "batch"
    requests,          \* operations so far
    \* static retrieval (get_mineru_file, get_image)
    static_op,         \* "none", "file", "image"
    static_path,       \* the path the handler built, from the root on
    static_response,   \* the status sent and the file served, if any
    \* translation client
    t_reply,           \* what the endpoint answered the last call, if asked
    t_timeout,         \* the expiry the last call gave cache.set, 0 if none
    \* translate-document (translate_mineru_json)
    doc_input,         \* the pages of the input file
    doc_data,          \* the pages in memory, as translated so far
    doc_pos,           \* blocks gone through
    doc_log,           \* per block gone through: what was done with it
    output_file,       \* the content of the output file, if written
    doc_pc             \* "idle", "start", "loop", "failed", "written"

nvars == <<mineru_data, layout, raised, pc>>
tvars == <<QWEN_API_KEY, OPENAI_API_KEY, has_cache, cache, calls,
           t_remote, t_reads, t_writes, t_text, t_lang, t_ret,
           t_err, t_provider>>
lvars == <<request_layout, req_layout, req_target_lang, force_retranslate, block_idx,
           translated_count, skipped_count, failed_count, first_error,
           block_log, tl_pc>>
wvars == <<max_wait_time, poll_interval, start_time, now, poll_result,
           wait_ret, wait_err, wait_err_msg, wait_pc>>
fvars == <<extract_dir, dir_before, download, zip_info, query_poll, response,
           client_error, last_op, requests>>
svars == <<static_op, static_path, static_response>>
dvars == <<doc_input, doc_data, doc_pos, doc_log, output_file, doc_pc>>
ovars == <<svars, t_reply, t_timeout, dvars>>
vars == <<nvars, tvars, lvars, wvars, fvars, ovars>>

-----------------------------------------------------------------------------
(* Bounds of the model *)

MaxPages == 2      \* page entries of a multi-page document
MaxBlocks == 2     \* blocks of a multi-page document, all pages together
MaxSpans == 3      \* spans of one line (nested-paragraph shape)
MaxCalls == 2      \* calls of translate_with_llm in one behaviour
MaxLayout == 3     \* blocks of the layout array of a translate_layout request
MaxWait == 2       \* largest max_wait_time of a wait, in seconds
MaxInterval == 2   \* largest poll_interval of a wait, in seconds
MaxRequests == 2   \* fetches and status queries in one behaviour
MaxSegs == 5       \* segments of the <path:...> part of a retrieval URL
MaxDocBlocks == 3  \* blocks of a document given to translate_mineru_json

-----------------------------------------------------------------------------
(* Python str and dict primitives *)

Junk == [kind |-> "junk"]

\* an optional value: an absent key or Python's None, or a value
None == <<>>
Some(v) == <<v>>

\* dict.get(key, default) on an optional field
Get(opt, default) == IF opt = <<>> THEN default ELSE opt[1]

RECURSIVE LStrip(_)
LStrip(s) == IF s # <<>> /\ Head(s) = " " THEN LStrip(Tail(s)) ELSE s

RECURSIVE RStrip(_)
RStrip(s) ==
    IF s # <<>> /\ s[Len(s)] = " " THEN RStrip(SubSeq(s, 1, Len(s) - 1)) ELSE s

\* a faulty variant of Strip: the text is kept as collected
StripNone(s) == s

\* str.strip()
Strip(s) == RStrip(LStrip(s))

\* " ".join(parts)
RECURSIVE Join(_)
Join(parts) ==
    IF parts = <<>> THEN <<>>
    ELSE IF Len(parts) = 1 THEN parts[1]
    ELSE parts[1] \o <<" ">> \o Join(Tail(parts))

\* the result of a block of code: it raised, or it returned ret
Raise == [exc |-> TRUE, ret |-> <<>>]
Return(v) == [exc |-> FALSE, ret |-> v]

\* one emitted LayoutBlock; src is a ghost field, the position (page entry,
\* block) of the source block in the input
LayoutBlock(page_no, bbox, text, block_type, pi, bi) ==
    [page |-> page_no, bbox |-> bbox, text |-> text, type |-> block_type,
     src |-> <<pi, bi>>]

-----------------------------------------------------------------------------
(* Shape 1: {"pdf_info": [{"page_idx": 0, "para_blocks": [...]}, ...]} *)

\* routes.py 303-307: the non-empty contents of the dict spans of one line
RECURSIVE SpanParts(_)
SpanParts(spans) ==
    IF spans = <<>> THEN <<>>
    ELSE LET span == Head(spans)
         IN (IF span.kind = "dict" /\ Get(span.content, <<>>) # <<>>
             THEN <<Get(span.content, <<>>)>> ELSE <<>>)
            \o SpanParts(Tail(spans))

\* routes.py 298-307: text_parts over the dict lines of a block
RECURSIVE NestedTextParts(_)
NestedTextParts(lines) ==
    IF lines = <<>> THEN <<>>
    ELSE LET line == Head(lines)
         IN (IF line.kind = "dict" THEN SpanParts(Get(line.spans, <<>>))
             ELSE <<>>)
            \o NestedTextParts(Tail(lines))

\* a faulty variant of NestedPageNo: the 0-based index is emitted as it is
NestedPageNoRaw(page_data) == Get(page_data.page_idx, 0)

\* routes.py 270-271
NestedPageNo(page_data) == Get(page_data.page_idx, 0) + 1

\* routes.py 282-318: the loop over the para blocks of one page
RECURSIVE NestedBlockLoop(_, _, _, _)
NestedBlockLoop(para_blocks, bi, page_no, pi) ==
    IF bi > Len(para_blocks) THEN Return(<<>>)
    ELSE LET block == para_blocks[bi] IN
         IF block.kind # "dict" THEN Raise
         ELSE LET block_type == Get(block.type, "")
                  bbox == Get(block.bbox, <<>>)
                  text == Strip(Join(NestedTextParts(Get(block.lines, <<>>))))
                  emit == /\ block_type \in {"text", "title"}
                          /\ ~(bbox = <<>> \/ Len(bbox) < 4)
                          /\ text # <<>>
                  rest == NestedBlockLoop(para_blocks, bi + 1, page_no, pi)
              IN IF rest.exc THEN Raise
                 ELSE Return((IF emit
                              THEN <<LayoutBlock(page_no, bbox, text,
                                                 block_type, pi, bi)>>
                              ELSE <<>>) \o rest.ret)

\* a faulty variant of NestedPageLoop: each page's blocks are put before the
\* blocks collected so far
RECURSIVE NestedPageLoopPrepend(_, _)
NestedPageLoopPrepend(pdf_info, pi) ==
    IF pi > Len(pdf_info) THEN Return(<<>>)
    ELSE LET page_data == pdf_info[pi] IN
         IF page_data.kind # "dict" THEN Raise
         ELSE LET this == NestedBlockLoop(Get(page_data.para_blocks, <<>>), 1,
                                          NestedPageNo(page_data), pi)
                  rest == NestedPageLoopPrepend(pdf_info, pi + 1)
              IN IF this.exc \/ rest.exc THEN Raise
                 ELSE Return(rest.ret \o this.ret)

\* routes.py 268-322: the loop over the pages of pdf_info
RECURSIVE NestedPageLoop(_, _)
NestedPageLoop(pdf_info, pi) ==
    IF pi > Len(pdf_info) THEN Return(<<>>)
    ELSE LET page_data == pdf_info[pi] IN
         IF page_data.kind # "dict" THEN Raise
         ELSE LET this == NestedBlockLoop(Get(page_data.para_blocks, <<>>), 1,
                                          NestedPageNo(page_data), pi)
                  rest == NestedPageLoop(pdf_info, pi + 1)
              IN IF this.exc \/ rest.exc THEN Raise
                 ELSE Return(this.ret \o rest.ret)

-----------------------------------------------------------------------------
(* Shape 2: [{"text": "...", "bbox": [...], "page_idx": 0}, ...] *)

\* routes.py 327: the discriminator on the first element
IsFlatItem(first_item) ==
    /\ first_item.kind = "dict"
    /\ first_item.text # <<>>
    /\ first_item.page_idx # <<>>

\* routes.py 343-345
FlatType(item) ==
    IF item.text_level = <<1>> THEN "title" ELSE Get(item.type, "text")

\* routes.py 331-352
RECURSIVE FlatLoop(_, _)
FlatLoop(items, i) ==
    IF i > Len(items) THEN Return(<<>>)
    ELSE LET item == items[i] IN
         IF item.kind # "dict" THEN Raise
         ELSE LET text == Strip(Get(item.text, <<>>))
                  bbox == Get(item.bbox, <<>>)
                  page_no == Get(item.page_idx, 0) + 1
                  emit == /\ text # <<>>
                          /\ ~(bbox = <<>> \/ Len(bbox) < 4)
                  rest == FlatLoop(items, i + 1)
              IN IF rest.exc THEN Raise
                 ELSE Return((IF emit
                              THEN <<LayoutBlock(page_no, bbox, text,
                                                 FlatType(item), i, 1)>>
                              ELSE <<>>) \o rest.ret)

-----------------------------------------------------------------------------
(* Shape 3: [[{"type": "...", "content": "...", "bbox": [...]}, ...], ...] *)

\* routes.py 368-390: the blocks of one page of the grid
RECURSIVE GridBlockLoop(_, _, _)
GridBlockLoop(page_blocks, bi, page_idx) ==
    IF bi > Len(page_blocks) THEN <<>>
    ELSE LET block == page_blocks[bi]
             rest == GridBlockLoop(page_blocks, bi + 1, page_idx)
         IN IF block.kind # "dict" THEN rest
            ELSE LET content == Strip(Get(block.content, <<>>))
                     bbox == Get(block.bbox, <<>>)
                     emit == /\ content # <<>>
                             /\ ~(bbox = <<>> \/ Len(bbox) < 4)
                 IN (IF emit
                     THEN <<LayoutBlock(page_idx + 1, bbox, content,
                                        Get(block.type, "text"),
                                        page_idx + 1, bi)>>
                     ELSE <<>>) \o rest

\* routes.py 362-366: enumerate(mineru_data), page_idx counted from 0
RECURSIVE GridLoop(_, _)
GridLoop(rows, page_idx) ==
    IF page_idx + 1 > Len(rows) THEN <<>>
    ELSE LET page_blocks == rows[page_idx + 1] IN
         (IF page_blocks.kind # "list" THEN <<>>
          ELSE GridBlockLoop(page_blocks.items, 1, page_idx))
         \o GridLoop(rows, page_idx + 1)

-----------------------------------------------------------------------------
(* Shape 4: {"pages": [{"blocks": [...], "page_no": 1}, ...]} *)

\* Python's "a or b" on optional integer fields: an absent key gives None
Truthy(opt) == opt # <<>> /\ opt[1] # 0

\* a faulty variant of LegacyPageNo: the first field that is present wins,
\* whatever its value
LegacyPageNoFirstPresent(page) ==
    IF page.page_no # <<>> THEN page.page_no[1]
    ELSE IF page.page # <<>> THEN page.page[1]
    ELSE IF page.pageNo # <<>> THEN page.pageNo[1]
    ELSE Get(page.page_idx, 0) + 1

\* routes.py 403
LegacyPageNo(page) ==
    IF Truthy(page.page_no) THEN page.page_no[1]
    ELSE IF Truthy(page.page) THEN page.page[1]
    ELSE IF Truthy(page.pageNo) THEN page.pageNo[1]
    ELSE Get(page.page_idx, 0) + 1

\* routes.py 423-428: text, or content when text is empty or absent
RECURSIVE LegacyTextParts(_)
LegacyTextParts(lines) ==
    IF lines = <<>> THEN <<>>
    ELSE LET line == Head(lines)
             line_text == IF Get(line.text, <<>>) # <<>>
                          THEN Get(line.text, <<>>)
                          ELSE Get(line.content, <<>>)
         IN (IF line.kind = "dict" /\ line_text # <<>>
             THEN <<line_text>> ELSE <<>>)
            \o LegacyTextParts(Tail(lines))

\* routes.py 433
LegacyBBox(block) ==
    IF Get(block.bbox, <<>>) # <<>> THEN block.bbox[1]
    ELSE IF Get(block.bbox_coords, <<>>) # <<>> THEN block.bbox_coords[1]
    ELSE <<0, 0, 0, 0>>

\* routes.py 413-440
RECURSIVE LegacyBlockLoop(_, _, _, _)
LegacyBlockLoop(blocks, bi, page_no, pi) ==
    IF bi > Len(blocks) THEN Return(<<>>)
    ELSE LET block == blocks[bi] IN
         IF block.kind # "dict" THEN Raise
         ELSE LET block_type == Get(block.type, "")
                  lines == Get(block.lines, <<>>)
                  text == Strip(Join(LegacyTextParts(lines)))
                  emit == /\ block_type \in {"text", "title"}
                          /\ lines # <<>>
                          /\ text # <<>>
                  rest == LegacyBlockLoop(blocks, bi + 1, page_no, pi)
              IN IF rest.exc THEN Raise
                 ELSE Return((IF emit
                              THEN <<LayoutBlock(page_no, LegacyBBox(block),
                                                 text, block_type, pi, bi)>>
                              ELSE <<>>) \o rest.ret)

\* routes.py 401-440
RECURSIVE LegacyPageLoop(_, _)
LegacyPageLoop(pages, pi) ==
    IF pi > Len(pages) THEN Return(<<>>)
    ELSE LET page == pages[pi] IN
         IF page.kind # "dict" THEN Raise
         ELSE LET this == LegacyBlockLoop(Get(page.blocks, <<>>), 1,
                                          LegacyPageNo(page), pi)
                  rest == LegacyPageLoop(pages, pi + 1)
              IN IF this.exc \/ rest.exc THEN Raise
                 ELSE Return(this.ret \o rest.ret)

-----------------------------------------------------------------------------
(* Shape detection and the function as a whole *)

\* routes.py 258: "not mineru_data" holds of None, {}, [], 0 and ""
Falsy(data) ==
    \/ data.kind = "none"
    \/ data.kind = "list" /\ data.items = <<>>

\* routes.py 396-450: the legacy shape, else no match.  get is a method of
\* dict alone: on a list, a str or a number the call raises AttributeError
LegacyOrNone(data) ==
    IF data.kind # "dict" THEN Raise
    ELSE IF Get(data.pages, <<>>) # <<>>
         THEN LegacyPageLoop(data.pages[1], 1)
         ELSE Return(<<>>)

\* a faulty variant of ParseBody: the legacy key is probed before pdf_info
ParseBodyLegacyFirst(data) ==
    IF Falsy(data) THEN Return(<<>>)
    ELSE IF data.kind = "junk" THEN Raise
    ELSE IF data.kind = "dict" /\ Get(data.pages, <<>>) # <<>>
         THEN LegacyPageLoop(data.pages[1], 1)
    ELSE IF data.kind = "dict" /\ data.pdf_info # <<>>
         THEN NestedPageLoop(data.pdf_info[1], 1)
    ELSE IF data.kind = "list" /\ IsFlatItem(data.items[1])
         THEN FlatLoop(data.items, 1)
    ELSE IF data.kind = "list" /\ data.items[1].kind = "list"
         THEN Return(GridLoop(data.items, 0))
    ELSE LegacyOrNone(data)

\* routes.py 258-450: the body of the try block.  "pdf_info" in x is a key
\* test on a dict, an element test on a list (no element of a modelled list
\* is that string), a substring test on a str (the modelled str does not
\* hold it) and a TypeError on a number
ParseBody(data) ==
    IF Falsy(data) THEN Return(<<>>)
    ELSE IF data.kind = "junk" THEN Raise
    ELSE IF data.kind = "dict" /\ data.pdf_info # <<>>
         THEN NestedPageLoop(data.pdf_info[1], 1)
    ELSE IF data.kind = "list" /\ IsFlatItem(data.items[1])
         THEN FlatLoop(data.items, 1)
    ELSE IF data.kind = "list" /\ data.items[1].kind = "list"
         THEN Return(GridLoop(data.items, 0))
    ELSE LegacyOrNone(data)

\* a faulty variant of parse_mineru_layout_from_data: no except clause
ParseNoExcept(data) == ParseBody(data)

\* routes.py 257, 452-454: except Exception returns []
parse_mineru_layout_from_data(data) ==
    IF ParseBody(data).exc THEN Return(<<>>) ELSE ParseBody(data)

-----------------------------------------------------------------------------
(* The raw inputs the normalizer is applied to.  A multi-page document is  *)
(* drawn as a plan, a sequence of tokens: a page token opens a page entry  *)
(* and a block token adds a block to the page entry last opened.           *)

RECURSIVE SeqsOfLen(_, _)
SeqsOfLen(S, n) ==
    IF n = 0 THEN {<<>>}
    ELSE {<<x>> \o s : x \in S, s \in SeqsOfLen(S, n - 1)}

SeqsUpTo(S, n) == UNION {SeqsOfLen(S, k) : k \in 0..n}

PageTok(h) == [tok |-> "page", val |-> h]
BlockTok(b) == [tok |-> "block", val |-> b]
Toks(Hdrs, Blocks) == {PageTok(h) : h \in Hdrs} \cup {BlockTok(b) : b \in Blocks}

TokCount(plan, kind) == Cardinality({i \in DOMAIN plan : plan[i].tok = kind})

\* a plan starts with a page and stays within the bounds
PlanOK(plan) ==
    /\ Len(plan) > 0 => plan[1].tok = "page"
    /\ TokCount(plan, "page") <= MaxPages
    /\ TokCount(plan, "block") <= MaxBlocks

\* the pages of a plan, each [hdr, blocks]
RECURSIVE Group(_, _)
Group(plan, n) ==
    IF n = 0 THEN <<>>
    ELSE LET init == Group(plan, n - 1) IN
         IF plan[n].tok = "page"
         THEN Append(init, [hdr |-> plan[n].val, blocks |-> <<>>])
         ELSE [init EXCEPT ![Len(init)].blocks = Append(@, plan[n].val)]

\* a function on 1..n as a sequence
RECURSIVE Tup(_, _)
Tup(f, i) == IF i > Len(f) THEN <<>> ELSE <<f[i]>> \o Tup(f, i + 1)

Strs == {<<>>, <<" ">>, <<"a">>, <<"b", " ">>}
StrOpts == {None} \cup {Some(t) : t \in Strs}
TypeOpts == {None, Some("text"), Some("title"), Some("image")}
Box2 == <<1, 2>>
Box4 == <<1, 2, 3, 4>>
Box5 == <<1, 2, 3, 4, 5>>
BBoxOpts == {None, Some(<<>>), Some(Box2), Some(Box4), Some(Box5)}
PageIdxOpts == {None, Some(-1), Some(0), Some(1)}

\* --- nested-paragraph documents
Span(c) == [kind |-> "dict", content |-> c]
NLine(sp) == [kind |-> "dict", spans |-> sp]
NBlock(t, b, l) == [kind |-> "dict", type |-> t, bbox |-> b, lines |-> l]
NPage(idx, bs) == [kind |-> "dict", page_idx |-> idx, para_blocks |-> bs]

SpanVals == {Junk, Span(None), Span(Some(<<>>)), Span(Some(<<" ">>)),
             Span(Some(<<"a">>))}
RichNestedLines ==
    {None, Some(<<>>), Some(<<Junk>>), Some(<<NLine(None)>>)}
    \cup {Some(<<NLine(Some(sp))>>) : sp \in SeqsUpTo(SpanVals, MaxSpans)}
    \cup {Some(<<NLine(Some(<<Span(Some(s1))>>)),
                 NLine(Some(<<Span(Some(s2))>>))>>) : s1 \in Strs, s2 \in Strs}
NLinesOf(t) == Some(<<NLine(Some(<<Span(Some(t))>>))>>)
SmallNestedBlocks ==
    {NBlock(Some("text"), Some(Box4), NLinesOf(<<"a">>)),
     NBlock(Some("title"), Some(Box5), NLinesOf(<<"b", " ">>)),
     NBlock(Some("image"), Some(Box4), NLinesOf(<<"a">>)),
     NBlock(Some("text"), Some(Box2), NLinesOf(<<"a">>)),
     NBlock(Some("text"), Some(Box4), NLinesOf(<<" ">>)),
     Junk}
NestedToks == Toks({Some(0), Some(1)}, SmallNestedBlocks)

RECURSIVE NestedDoc(_)
NestedDoc(pgs) ==
    IF pgs = <<>> THEN <<>>
    ELSE <<NPage(Head(pgs).hdr, Some(Head(pgs).blocks))>> \o NestedDoc(Tail(pgs))

\* --- dict elements of a top-level list (flat items and grid blocks)
Item(tx, c, idx, b, t, lvl) ==
    [kind |-> "dict", text |-> tx, content |-> c, page_idx |-> idx,
     bbox |-> b, type |-> t, text_level |-> lvl]
Row(bs) == [kind |-> "list", items |-> bs]

SmallFlatItems ==
    {Item(Some(<<"a">>), None, Some(1), Some(Box4), Some("text"), None),
     Item(Some(<<"b", " ">>), None, Some(0), Some(Box5), None, Some(1)),
     Item(Some(<<"a">>), None, Some(0), Some(Box4), Some("table"), None),
     Item(Some(<<" ">>), None, Some(0), Some(Box4), Some("text"), None),
     Item(Some(<<"a">>), None, Some(0), Some(Box2), Some("text"), None),
     Item(None, None, None, Some(Box4), Some("text"), None),
     Junk}

SmallGridBlocks ==
    {Item(None, Some(<<"a">>), None, Some(Box4), Some("text"), None),
     Item(None, Some(<<"b", " ">>), None, Some(Box5), None, None),
     Item(None, Some(<<"a">>), None, Some(Box4), Some("image"), None),
     Item(None, Some(<<" ">>), None, Some(Box4), Some("text"), None),
     Item(None, Some(<<"a">>), None, Some(Box2), Some("text"), None),
     Junk}
GridToks == Toks({"row", "junk"}, SmallGridBlocks)

RECURSIVE GridDoc(_)
GridDoc(pgs) ==
    IF pgs = <<>> THEN <<>>
    ELSE <<IF Head(pgs).hdr = "row" THEN Row(Head(pgs).blocks) ELSE Junk>>
         \o GridDoc(Tail(pgs))

\* --- legacy documents
LLine(tx, c) == [kind |-> "dict", text |-> tx, content |-> c]
LBlock(t, b, bc, l) ==
    [kind |-> "dict", type |-> t, bbox |-> b, bbox_coords |-> bc, lines |-> l]
LPage(no, pg, pgNo, idx, bs) ==
    [kind |-> "dict", page_no |-> no, page |-> pg, pageNo |-> pgNo,
     page_idx |-> idx, blocks |-> bs]

LLinesOf(t) == Some(<<LLine(Some(t), None)>>)
RichLegacyLines ==
    {None, Some(<<>>), Some(<<Junk>>)}
    \cup {Some(<<LLine(tx, c)>>) :
            tx \in {None, Some(<<>>), Some(<<" ">>), Some(<<"a">>)},
            c \in {None, Some(<<>>), Some(<<"b", " ">>)}}
    \cup {Some(<<LLine(Some(s1), None), LLine(None, Some(s2))>>) :
            s1 \in Strs, s2 \in Strs}
GoodLegacyBlock == LBlock(Some("text"), Some(Box4), None, LLinesOf(<<"a">>))
SmallLegacyBlocks ==
    {GoodLegacyBlock,
     LBlock(Some("title"), None, Some(<<5, 6, 7, 8>>), LLinesOf(<<"b", " ">>)),
     LBlock(Some("image"), Some(Box4), None, LLinesOf(<<"a">>)),
     LBlock(Some("text"), Some(Box2), None, LLinesOf(<<"a">>)),
     LBlock(Some("text"), None, None, LLinesOf(<<" ">>)),
     Junk}
LegacyToks == Toks({Some(2), Some(1)}, SmallLegacyBlocks)

RECURSIVE LegacyDoc(_)
LegacyDoc(pgs) ==
    IF pgs = <<>> THEN <<>>
    ELSE <<LPage(Head(pgs).hdr, None, None, None, Some(Head(pgs).blocks))>>
         \o LegacyDoc(Tail(pgs))

\* --- top-level values
Dict(info, pgs) == [kind |-> "dict", pdf_info |-> info, pages |-> pgs]
List(items) == [kind |-> "list", items |-> items]

OneBlockNestedDocs ==
    {<<>>} \cup {<<NPage(Some(0), Some(<<b>>))>> : b \in SmallNestedBlocks}
OneBlockLegacyDocs ==
    {<<>>} \cup {<<LPage(Some(2), None, None, None, Some(<<b>>))>> :
                    b \in SmallLegacyBlocks}
MixedLists ==
    {<<a, b>> : a \in {Junk, Row(<<>>)} \cup SmallFlatItems,
                b \in {Junk, Row(<<>>)} \cup SmallFlatItems \cup SmallGridBlocks}

\* values of no shape, and values with a page entry that is no dict
OddInput(d) ==
    d \in {[kind |-> "none"], [kind |-> "junk"], [kind |-> "str"], List(<<>>),
           Dict(None, None), Dict(Some(<<Junk>>), None),
           Dict(None, Some(<<Junk>>)),
           Dict(Some(<<NPage(Some(0), None)>>), None),
           Dict(None, Some(<<LPage(Some(1), None, None, None, None)>>))}

\* {"pdf_info": [...]}: one page with one block of every make, and the plans
NestedInput(d) ==
    \/ \E i \in PageIdxOpts, t \in TypeOpts, b \in BBoxOpts,
          l \in RichNestedLines :
          d = Dict(Some(<<NPage(i, Some(<<NBlock(t, b, l)>>))>>), None)
    \/ \E n \in 0..(MaxPages + MaxBlocks) : \E plan \in [1..n -> NestedToks] :
          /\ PlanOK(plan)
          /\ d = Dict(Some(NestedDoc(Group(plan, n))), None)

\* [{"text": ..., "page_idx": ...}, ...]
FlatInput(d) ==
    \/ \E tx \in StrOpts, idx \in PageIdxOpts, b \in BBoxOpts, t \in TypeOpts,
          lvl \in {None, Some(1), Some(2)} :
          d = List(<<Item(tx, None, idx, b, t, lvl)>>)
    \/ \E n \in 1..MaxBlocks : \E f \in [1..n -> SmallFlatItems] :
          d = List(Tup(f, 1))

\* [[{"content": ...}, ...], ...]
GridInput(d) ==
    \/ \E c \in StrOpts, b \in BBoxOpts, t \in TypeOpts :
          d = List(<<Row(<<Item(None, c, None, b, t, None)>>)>>)
    \/ \E n \in 1..(MaxPages + MaxBlocks) : \E plan \in [1..n -> GridToks] :
          /\ PlanOK(plan)
          /\ d = List(GridDoc(Group(plan, n)))

\* {"pages": [...]}
LegacyInput(d) ==
    \/ \E no \in {None, Some(-1), Some(0), Some(2)}, pg \in {None, Some(0), Some(3)},
          pgNo \in {None, Some(4)}, idx \in {None, Some(-1), Some(0), Some(5)} :
          d = Dict(None, Some(<<LPage(no, pg, pgNo, idx,
                                      Some(<<GoodLegacyBlock>>))>>))
    \/ \E t \in TypeOpts, b \in {None, Some(<<>>), Some(Box2), Some(Box4)},
          bc \in {None, Some(<<5, 6>>), Some(<<5, 6, 7, 8>>)},
          l \in RichLegacyLines :
          d = Dict(None, Some(<<LPage(None, None, None, None,
                                      Some(<<LBlock(t, b, bc, l)>>))>>))
    \/ \E n \in 0..(MaxPages + MaxBlocks) : \E plan \in [1..n -> LegacyToks] :
          /\ PlanOK(plan)
          /\ d = Dict(None, Some(LegacyDoc(Group(plan, n))))

\* values that match the discriminator of more than one shape, or of none
MixedInput(d) ==
    \/ \E d1 \in OneBlockNestedDocs, d2 \in OneBlockLegacyDocs :
          d = Dict(Some(d1), Some(d2))
    \/ \E items \in MixedLists : d = List(items)

-----------------------------------------------------------------------------
(* The Translation Client: translator_llm.py translate_with_llm *)

Texts == {<<>>, <<" ">>, <<"a">>, <<"a", "_", "b">>}
Langs == {<<"z", "h">>, <<"b", "_", "z", "h">>}

\* translator_llm.py 40-41: the sha256 digest of f"{text}_{target_lang}";
\* the digest is taken to be injective, so the key is the hashed string
get_translation_cache_key(text, target_lang) == text \o <<"_">> \o target_lang

CacheKeys == {get_translation_cache_key(t, l) : t \in Texts, l \in Langs}

\* what the completion endpoint answers: a content, a response without
\* choices or message, or an error whose text holds some of the markers
\* the classifier looks for
OkReply(c) == [kind |-> "ok", content |-> c, marks |-> {}]
ErrReply(m) == [kind |-> "error", content |-> <<>>, marks |-> m]
Replies ==
    {OkReply(<<>>), OkReply(<<" ">>), OkReply(<<" ", "T">>),
     [kind |-> "malformed", content |-> <<>>, marks |-> {}],
     ErrReply({"401", "429", "timeout", "model not found"}),
     ErrReply({"429", "timeout", "model not found"}),
     ErrReply({"timeout", "model not found"}),
     ErrReply({"model not found"}),
     ErrReply({})}

\* the endpoint was not asked
NoReply == [kind |-> "none", content |-> <<>>, marks |-> {}]

\* a faulty variant of Classify: the timeout test comes before the
\* rate-limit test
ClassifyTimeoutFirst(marks) ==
    IF "401" \in marks THEN "authentication"
    ELSE IF "timeout" \in marks THEN "timeout"
    ELSE IF "429" \in marks THEN "rate-limit"
    ELSE IF "model not found" \in marks THEN "model-not-found"
    ELSE "generic"

\* translator_llm.py 142-151: the first test that matches names the category
Classify(marks) ==
    IF "401" \in marks THEN "authentication"
    ELSE IF "429" \in marks THEN "rate-limit"
    ELSE IF "timeout" \in marks THEN "timeout"
    ELSE IF "model not found" \in marks THEN "model-not-found"
    ELSE "generic"

\* translator_llm.py 179: cache.set(..., timeout=86400), in seconds
CacheTimeout == 86400

\* a faulty variant of EmptyTranslation: every content counts as a
\* translation
EmptyTranslationNever(translated_text) == FALSE

\* translator_llm.py 162: not translated_text
EmptyTranslation(translated_text) == translated_text = <<>>

\* a faulty variant of IsBlank: only the empty string is a no-op
IsBlankEmptyOnly(text) == text = <<>>

\* translator_llm.py 56: not text or not text.strip()
IsBlank(text) == text = <<>> \/ Strip(text) = <<>>

\* a faulty variant of ResolveProvider: the secondary provider is used even
\* when it has no credential
ResolveProviderNoKeyTest(qwen_api_key, openai_api_key) ==
    IF qwen_api_key THEN "qwen" ELSE "openai"

\* a faulty variant of ResolveProvider: the secondary credential is preferred
ResolveProviderSecondaryFirst(qwen_api_key, openai_api_key) ==
    IF openai_api_key THEN "openai"
    ELSE IF qwen_api_key THEN "qwen" ELSE "none"

\* translator_llm.py 72-92: the primary credential when it is configured,
\* else the secondary one, else none (the text is returned as it is)
ResolveProvider(qwen_api_key, openai_api_key) ==
    IF qwen_api_key THEN "qwen"
    ELSE IF openai_api_key THEN "openai" ELSE "none"

\* the effect of a call: the value returned or the failure raised, the
\* cache afterwards and the requests made
Effect(ret, err, c, remote, reads, writes, provider) ==
    [ret |-> ret, err |-> err, cache |-> c, remote |-> remote,
     reads |-> reads, writes |-> writes, provider |-> provider]

\* translator_llm.py 44-201.  reply is the endpoint's answer should it be
\* asked, getErr and setErr say whether cache.get and cache.set raise
translate_with_llm(text, target_lang, reply, getErr, setErr) ==
    IF IsBlank(text)
    THEN Effect(Some(text), "", cache, 0, 0, 0, "none")
    ELSE
    LET cache_key == get_translation_cache_key(text, target_lang)
        reads == IF has_cache THEN 1 ELSE 0
        cached_result == IF has_cache /\ ~getErr THEN cache[cache_key] ELSE None
        provider == ResolveProvider(QWEN_API_KEY, OPENAI_API_KEY)
        translated_text == Strip(reply.content)
    IN IF Get(cached_result, <<>>) # <<>>
       THEN Effect(cached_result, "", cache, 0, reads, 0, "none")
       ELSE IF provider = "none"
       THEN Effect(Some(text), "", cache, 0, reads, 0, "none")
       ELSE IF reply.kind = "error"
       THEN Effect(None, Classify(reply.marks), cache, 1, reads, 0, provider)
       ELSE IF reply.kind = "malformed"
       THEN Effect(None, "empty-response", cache, 1, reads, 0, provider)
       ELSE IF EmptyTranslation(translated_text)
       THEN Effect(Some(text), "", cache, 1, reads, 0, provider)
       ELSE Effect(Some(translated_text), "",
                   IF has_cache /\ ~setErr
                   THEN [cache EXCEPT ![cache_key] = Some(translated_text)]
                   ELSE cache,
                   1, reads, IF has_cache THEN 1 ELSE 0, provider)

-----------------------------------------------------------------------------
(* The batch translation pass: routes.py translate_layout *)

\* a block of the request's layout array
Blk(text, translated_text) ==
    [kind |-> "dict", text |-> text, translated_text |-> translated_text]

\* the blocks a request may hold: blank text (with or without a
\* translation), plain text, text with a leading blank, an existing
\* translation, an empty existing translation, and an element that is not
\* an object
LayoutBlocks ==
    {Blk(Some(<<" ">>), None),
     Blk(Some(<<" ">>), Some(<<"X">>)),
     Blk(Some(<<"a">>), None),
     Blk(Some(<<" ", "a">>), None),
     Blk(Some(<<"a">>), Some(<<"X">>)),
     Blk(Some(<<"a">>), Some(<<>>)),
     Junk}

\* what the endpoint answers during a pass
LayoutReplies ==
    {OkReply(<<" ", "T">>),
     ErrReply({"401", "429", "timeout", "model not found"}),
     ErrReply({})}

\* a faulty variant of BlockText: the text is not trimmed
BlockTextUntrimmed(block) == Get(block.text, <<>>)

\* routes.py 687: block.get('text', '').strip()
BlockText(block) == Strip(Get(block.text, <<>>))

\* the truth value of block.get('translated_text')
HasTranslation(block) == Get(block.translated_text, <<>>) # <<>>

\* a faulty variant of SkipsBlock: force_retranslate is not looked at
SkipsBlockIgnoringForce(force, block) == HasTranslation(block)

\* routes.py 692: not force_retranslate and block.get('translated_text')
SkipsBlock(force, block) == ~force /\ HasTranslation(block)

\* a faulty variant of FailureFallback: the block is left as it is
FailureFallbackNone(block, text) == block

\* a faulty variant of FailureFallback: the text replaces any translation
FailureFallbackOverwrite(block, text) ==
    [block EXCEPT !.translated_text = Some(text)]

\* routes.py 744-745: a failed block without a translation gets the text
FailureFallback(block, text) ==
    IF ~HasTranslation(block)
    THEN [block EXCEPT !.translated_text = Some(text)]
    ELSE block

\* a faulty variant of RecordFirstError: the last failure is recorded
RecordLastError(error, failures, error_msg) == Some(error_msg)

\* routes.py 736-737: failures is failed_count after the increment
RecordFirstError(error, failures, error_msg) ==
    IF failures = 1 THEN Some(error_msg) ELSE error

\* one entry of block_log: the branch the loop took for the block, whether
\* translate sent a request, the value it returned and the failure it raised
Logged(branch, remote, ret, err) ==
    [branch |-> branch, remote |-> remote, ret |-> ret, err |-> err]

-----------------------------------------------------------------------------
(* The Remote Task Client: mineru_api.py wait_for_task_completion *)

\* the data of a task the status endpoint answered with
TaskData(state, err_msg, full_zip_url) ==
    [kind |-> "dict", state |-> state, err_msg |-> err_msg,
     full_zip_url |-> full_zip_url]

\* the answer is {"data": null}: get_task_result returns None
NullData == [kind |-> "null", state |-> None, err_msg |-> None,
             full_zip_url |-> None]

\* mineru_api.py 116-131: the request failed or the business code is not 0,
\* get_task_result raises
PollError == [kind |-> "error", state |-> None, err_msg |-> None,
              full_zip_url |-> None]

NoPoll == [kind |-> "none", state |-> None, err_msg |-> None,
           full_zip_url |-> None]

\* what one call of get_task_result may give
Polls ==
    {TaskData(Some("done"), None, Some("u1")),
     TaskData(Some("done"), None, Some("u2")),
     TaskData(Some("done"), None, None),
     TaskData(Some("failed"), Some("E"), None),
     TaskData(Some("failed"), None, None),
     TaskData(Some("pending"), None, None),
     TaskData(Some("running"), None, None),
     TaskData(Some("converting"), None, None),
     TaskData(Some("waiting-file"), None, None),
     TaskData(None, None, None),
     NullData,
     PollError}

\* a faulty variant of WaitBranch: an unrecognized state ends the wait
WaitBranchElseReturn(state) ==
    IF state = "done" THEN "return"
    ELSE IF state = "failed" THEN "raise"
    ELSE IF state \in {"pending", "running", "converting"} THEN "check"
    ELSE "return"

\* mineru_api.py 154-178: what the loop does on a state
WaitBranch(state) ==
    IF state = "done" THEN "return"
    ELSE IF state = "failed" THEN "raise"
    ELSE IF state \in {"pending", "running", "converting"} THEN "check"
    ELSE "sleep"

\* the clock is kept up to MaxTime, which every max_wait_time is below:
\* elapsed > max_wait_time is the same on the clock and on the time it caps
MaxTime == MaxWait + MaxInterval + 1
Tick(t, d) == IF t + d > MaxTime THEN MaxTime ELSE t + d

-----------------------------------------------------------------------------
(* The Remote Task Client: mineru_api.py download_and_extract_zip *)

\* file names, as Python str
LayoutJson == <<"l", "a", "y", "o", "u", "t", ".", "j", "s", "o", "n">>
AModelJson == <<"a", "M", "o", "d", "e", "l", ".", "j", "s", "o", "n">>
CJson == <<"c", ".", "j", "s", "o", "n">>
DJson == <<"d", ".", "j", "s", "o", "n">>
FullMd == <<"f", "u", "l", "l", ".", "m", "d">>
Names == {LayoutJson, AModelJson, CJson, DJson, FullMd}

\* a file of the archive or of the directory: its name and the directory
\* it lies in, relative to extract_to ("" is extract_to itself)
File(dir, name) == [dir |-> dir, name |-> name]
Paths == {File(dir, name) : dir \in {"", "sub"}, name \in Names}

\* the archives of the model: empty, without any JSON file, with a
\* top-level layout.json, with a layout.json in a subdirectory (alone, and
\* beside a model file), with a model file beside another JSON file, with
\* JSON files of other names
Archives ==
    {{},
     {File("", FullMd)},
     {File("", LayoutJson), File("", FullMd)},
     {File("sub", LayoutJson)},
     {File("sub", LayoutJson), File("", AModelJson)},
     {File("", AModelJson), File("", CJson)},
     {File("", CJson), File("", DJson)},
     {File("sub", CJson)}}

\* str.lower(), on the letters the names hold
LowerChar(c) == IF c = "M" THEN "m" ELSE c
Lower(str) == [k \in 1..Len(str) |-> LowerChar(str[k])]

\* sub in str
Contains(str, sub) ==
    \E k \in 1..(Len(str) - Len(sub) + 1) :
        SubSeq(str, k, k + Len(sub) - 1) = sub

\* rglob('*.json'): the name ends with .json
IsJsonName(name) ==
    /\ Len(name) >= 5
    /\ SubSeq(name, Len(name) - 4, Len(name)) = <<".", "j", "s", "o", "n">>

\* mineru_api.py 228
HasLayoutOrModel(name) ==
    \/ Contains(Lower(name), <<"l", "a", "y", "o", "u", "t">>)
    \/ Contains(Lower(name), <<"m", "o", "d", "e", "l">>)

\* the GET of the archive failed, or its body is not a zip file
DownloadFailed == [kind |-> "failed", files |-> {}]
\* the archive downloaded, with its files
Archive(files) == [kind |-> "zip", files |-> files]
NoDownload == [kind |-> "none", files |-> {}]

\* the outcome of download_and_extract_zip: the failure raised or the
\* dictionary returned
ZipRaise(err) == [exc |-> TRUE, err |-> err, json_path |-> None,
                  full_md_path |-> None]
ZipReturn(json_path, full_md_path) ==
    [exc |-> FALSE, err |-> "", json_path |-> Some(json_path),
     full_md_path |-> full_md_path]
NoZipInfo == [exc |-> FALSE, err |-> "", json_path |-> None,
              full_md_path |-> None]

\* mineru_api.py 202: extractall writes the archive's files into the
\* directory, beside whatever it holds
ExtractAll(dir, files) == dir \cup files

\* the paths rglob('*.json') matches, and those line 228 matches
JsonPaths == {f \in Paths : IsJsonName(f.name)}
NamedPaths == {f \in JsonPaths : HasLayoutOrModel(f.name)}

\* mineru_api.py 224: the files rglob finds under the directory
JsonFiles(dir) == dir \cap JsonPaths

\* mineru_api.py 225-236: the files one of which is taken when there is no
\* layout.json in extract_to itself: those whose name holds "layout" or
\* "model" if there are any, else all JSON files.  rglob lists the files in
\* the order of the file system, so the first one can be any of them
Candidates(dir) ==
    LET named == JsonFiles(dir) \cap NamedPaths
    IN IF named # {} THEN named ELSE JsonFiles(dir)

\* mineru_api.py 181-242; first is the candidate rglob lists first
download_and_extract_zip(got, dir, first) ==
    IF got.kind = "failed" THEN ZipRaise("download")
    ELSE
    LET after == ExtractAll(dir, got.files)
        layout_json == File("", LayoutJson)
        full_md == File("", FullMd)
        full_md_path == IF full_md \in after THEN Some(full_md) ELSE None
    IN IF layout_json \in after THEN ZipReturn(layout_json, full_md_path)
       ELSE IF JsonFiles(after) # {} THEN ZipReturn(first, full_md_path)
       ELSE ZipRaise("no-json")

\* the directory after the call
DirAfter(got, dir) ==
    IF got.kind = "failed" THEN dir ELSE ExtractAll(dir, got.files)

Downloads == {DownloadFailed} \cup {Archive(A) : A \in Archives}

\* the envelope of get_standard_response, its HTTP status, and whether the
\* data carries a layout
Envelope(success, status, with_layout) ==
    [success |-> success, status |-> status, layout |-> with_layout]
NoResponse == Envelope(FALSE, 0, FALSE)

\* the batch endpoint answered without any extract_result
EmptyBatch == [kind |-> "empty", state |-> None, err_msg |-> None,
               full_zip_url |-> None]

\* what a status query did: the envelope sent, the failure the client
\* raised, the download made, the outcome of the extraction, the directory
Queried(resp, err, got, info, dir) ==
    [response |-> resp, client_error |-> err, download |-> got,
     zip_info |-> info, dir |-> dir]

\* a faulty variant of StatusQuery: no download when the directory already
\* holds the files of an earlier fetch
StatusQueryOnce(result, got, first, json_ok, dir) ==
    IF Get(result.state, "") = "done" /\ Get(result.full_zip_url, "") # ""
       /\ dir = {}
    THEN LET info == download_and_extract_zip(got, dir, first)
             after == DirAfter(got, dir)
         IN IF info.exc
            THEN Queried(Envelope(TRUE, 200, FALSE), info.err, got, info, after)
            ELSE Queried(Envelope(TRUE, 200, json_ok), "", got, info, after)
    ELSE Queried(Envelope(TRUE, 200, FALSE), "", NoDownload, NoZipInfo, dir)

\* routes.py 472-496 and 525-559: result is the task's data (the first
\* extract_result of a batch); got is what the GET of full_zip_url gives,
\* json_ok whether the result file reads as JSON
StatusQuery(result, got, first, json_ok, dir) ==
    IF Get(result.state, "") = "done" /\ Get(result.full_zip_url, "") # ""
    THEN LET info == download_and_extract_zip(got, dir, first)
             after == DirAfter(got, dir)
         IN IF info.exc
            THEN \* routes.py 493-494, 546-547: logged as a warning
                 Queried(Envelope(TRUE, 200, FALSE), info.err, got, info, after)
            ELSE Queried(Envelope(TRUE, 200, json_ok), "", got, info, after)
    ELSE Queried(Envelope(TRUE, 200, FALSE), "", NoDownload, NoZipInfo, dir)

\* routes.py 468-500
get_mineru_task(poll, got, first, json_ok, dir) ==
    IF poll.kind = "error"
    THEN Queried(Envelope(FALSE, 500, FALSE), "poll", NoDownload, NoZipInfo, dir)
    ELSE IF poll.kind = "null"
    THEN \* result.get on None, caught at routes.py 498
         Queried(Envelope(FALSE, 500, FALSE), "", NoDownload, NoZipInfo, dir)
    ELSE StatusQuery(poll, got, first, json_ok, dir)

\* routes.py 514-569
get_mineru_batch(poll, got, first, json_ok, dir) ==
    IF poll.kind = "error"
    THEN Queried(Envelope(FALSE, 500, FALSE), "poll", NoDownload, NoZipInfo, dir)
    ELSE IF poll.kind = "null"
    THEN Queried(Envelope(FALSE, 500, FALSE), "", NoDownload, NoZipInfo, dir)
    ELSE IF poll.kind = "empty"
    THEN Queried(Envelope(TRUE, 200, FALSE), "", NoDownload, NoZipInfo, dir)
    ELSE StatusQuery(poll, got, first, json_ok, dir)

-----------------------------------------------------------------------------
(* Static retrieval: routes.py 909-932 and 980-1002 *)

\* A path is a sequence of names, a name a str; an absolute path starts at
\* the root of the file system.
DotDot == <<".", ".">>
DirD == <<"d">>
DirM == <<"m">>
DirM2 == <<"m", "2">>
DirT == <<"t">>
ImagesName == <<"i", "m", "a", "g", "e", "s">>
NameF == <<"f">>

\* config['MINERU_FOLDER'], made absolute by create_app (__init__.py 30-36)
mineru_folder == <<DirD, DirM>>

\* the file system: the output root /d/m with one task directory, a
\* sibling /d/m2 whose name starts with the root's name, and a file /d/f
FsDirs == {<<>>, <<DirD>>, mineru_folder, mineru_folder \o <<DirT>>,
           mineru_folder \o <<DirT, ImagesName>>, <<DirD, DirM2>>}
FsFiles == {mineru_folder \o <<DirT, NameF>>,
            mineru_folder \o <<DirT, ImagesName, NameF>>,
            <<DirD, DirM2, NameF>>,
            <<DirD, NameF>>}

\* the names a request can put in a URL segment
Segs == {DotDot, DirT, ImagesName, NameF, DirM2}

Parent(path) == IF path = <<>> THEN <<>> ELSE SubSeq(path, 1, Len(path) - 1)

\* Path.resolve() where there is no symbolic link: ".." drops the name
\* before it
RECURSIVE ResolveFrom(_, _)
ResolveFrom(cur, rest) ==
    IF rest = <<>> THEN cur
    ELSE IF Head(rest) = DotDot THEN ResolveFrom(Parent(cur), Tail(rest))
    ELSE ResolveFrom(Append(cur, Head(rest)), Tail(rest))
Resolve(path) == ResolveFrom(<<>>, path)

\* str(path) of an absolute path
RECURSIVE PathStr(_)
PathStr(path) ==
    IF path = <<>> THEN <<>> ELSE <<"/">> \o Head(path) \o PathStr(Tail(path))

\* str.startswith
StartsWith(str, prefix) ==
    /\ Len(str) >= Len(prefix)
    /\ SubSeq(str, 1, Len(prefix)) = prefix

\* routes.py 921 and 995: the test that lets a path through
PassesCheck(path) ==
    StartsWith(PathStr(Resolve(path)), PathStr(Resolve(mineru_folder)))

\* what the operating system finds at a path: it walks name by name and
\* every name on the way has to be in a directory that exists
RECURSIVE WalkFrom(_, _)
WalkFrom(cur, rest) ==
    IF rest = <<>> THEN Some(cur)
    ELSE IF cur \notin FsDirs THEN None
    ELSE IF Head(rest) = DotDot THEN WalkFrom(Parent(cur), Tail(rest))
    ELSE IF Append(cur, Head(rest)) \in FsDirs \cup FsFiles
         THEN WalkFrom(Append(cur, Head(rest)), Tail(rest))
    ELSE None
Walk(path) == WalkFrom(<<>>, path)

\* the status sent and the file served
Static(status, served) == [status |-> status, served |-> served]
NoStatic == Static(0, None)

\* send_from_directory(str(path.parent), path.name): a directory, or a
\* name "..", is NotFound, which the handler's except turns into 404
send_from_directory(path) ==
    LET found == Walk(path)
    IN IF found # None /\ found[1] \in FsFiles /\ path[Len(path)] # DotDot
       THEN Static(200, found)
       ELSE Static(404, None)

\* routes.py 909-932
get_mineru_file(filename) ==
    LET file_path == mineru_folder \o filename
    IN IF ~PassesCheck(file_path) THEN Static(403, None)
       ELSE IF Walk(file_path) = None THEN Static(404, None)
       ELSE IF Walk(file_path)[1] \in FsDirs THEN Static(400, None)
       ELSE send_from_directory(file_path)

\* routes.py 980-1002
get_image(task_id, image_name) ==
    LET image_path == mineru_folder \o <<task_id, ImagesName>> \o image_name
    IN IF ~PassesCheck(image_path) THEN Static(403, None)
       ELSE IF Walk(image_path) = None THEN Static(404, None)
       ELSE send_from_directory(image_path)

-----------------------------------------------------------------------------
(* Translate-document: translator_llm.py translate_mineru_json *)

\* a block of a page of the document
DocBlock(type, lines) ==
    [kind |-> "dict", type |-> type, lines |-> lines, translated_text |-> None]
DocPage(blocks) == [kind |-> "dict", blocks |-> blocks]

\* the blocks a document may hold: text blocks with one or two lines, with
\* a blank line only, with no lines, with a line that is no object, a
\* block of another type, and an element that is no object
DocBlocks ==
    {DocBlock(Some("text"), Some(<<LLine(Some(<<"a">>), None)>>)),
     DocBlock(Some("text"), Some(<<LLine(Some(<<" ", "a">>), None),
                                   LLine(None, Some(<<"b">>))>>)),
     DocBlock(Some("text"), Some(<<LLine(Some(<<" ">>), None), Junk>>)),
     DocBlock(Some("text"), None),
     DocBlock(Some("title"), Some(<<LLine(Some(<<"a">>), None)>>)),
     Junk}

\* translator_llm.py 235-239: the texts of the lines that are objects
RECURSIVE DocLineTexts(_)
DocLineTexts(lines) ==
    IF lines = <<>> THEN <<>>
    ELSE (IF Head(lines).kind = "dict"
          THEN <<Get(Head(lines).text, <<>>)>> ELSE <<>>)
         \o DocLineTexts(Tail(lines))

\* " ".join of the texts, the empty ones included
RECURSIVE JoinAll(_)
JoinAll(parts) ==
    IF parts = <<>> THEN <<>>
    ELSE IF Len(parts) = 1 THEN parts[1]
    ELSE parts[1] \o <<" ">> \o JoinAll(Tail(parts))

\* translator_llm.py 234-239
original_text(block) == Strip(JoinAll(DocLineTexts(Get(block.lines, <<>>))))

\* the positions <<page, block>> of the blocks in the order of the two loops
\* of translator_llm.py 230-231
RECURSIVE PositionsFrom(_, _, _)
PositionsFrom(pages, p, b) ==
    IF p > Len(pages) THEN <<>>
    ELSE IF b > Len(pages[p].blocks) THEN PositionsFrom(pages, p + 1, 1)
    ELSE <<(<<p, b>>)>> \o PositionsFrom(pages, p, b + 1)
Positions(pages) == PositionsFrom(pages, 1, 1)

\* a faulty variant of AfterFailure: the failure is swallowed and the loop
\* goes on
AfterFailureGoOn(at) == "loop"

\* translator_llm.py 267-269: an exception in the loops leaves the function
AfterFailure(at) == "failed"

\* one entry of doc_log
DocLogged(branch, text, ret) == [branch |-> branch, text |-> text, ret |-> ret]

-----------------------------------------------------------------------------
(* The state machines *)

NormalizerIdle ==
    /\ mineru_data = [kind |-> "none"]
    /\ layout = <<>>
    /\ raised = FALSE
    /\ pc = "idle"

TranslatorIdle ==
    /\ QWEN_API_KEY = FALSE
    /\ OPENAI_API_KEY = FALSE
    /\ has_cache = FALSE
    /\ cache = [k \in CacheKeys |-> None]
    /\ calls = 0
    /\ t_remote = 0
    /\ t_reads = 0
    /\ t_writes = 0
    /\ t_text = <<>>
    /\ t_lang = <<>>
    /\ t_ret = None
    /\ t_err = ""
    /\ t_provider = "none"

TranslateLayoutIdle ==
    /\ request_layout = <<>>
    /\ req_layout = <<>>
    /\ req_target_lang = <<>>
    /\ force_retranslate = FALSE
    /\ block_idx = 0
    /\ translated_count = 0
    /\ skipped_count = 0
    /\ failed_count = 0
    /\ first_error = None
    /\ block_log = <<>>
    /\ tl_pc = "idle"

WaitIdle ==
    /\ max_wait_time = 0
    /\ poll_interval = 0
    /\ start_time = 0
    /\ now = 0
    /\ poll_result = NoPoll
    /\ wait_ret = None
    /\ wait_err = ""
    /\ wait_err_msg = ""
    /\ wait_pc = "idle"

FetchIdle ==
    /\ extract_dir = {}
    /\ dir_before = {}
    /\ download = NoDownload
    /\ zip_info = NoZipInfo
    /\ query_poll = NoPoll
    /\ response = NoResponse
    /\ client_error = ""
    /\ last_op = "none"
    /\ requests = 0

DocumentIdle ==
    /\ doc_input = <<>>
    /\ doc_data = <<>>
    /\ doc_pos = 0
    /\ doc_log = <<>>
    /\ output_file = None
    /\ doc_pc = "idle"

StaticIdle ==
    /\ static_op = "none"
    /\ static_path = <<>>
    /\ static_response = NoStatic

OthersIdle ==
    /\ StaticIdle
    /\ t_reply = NoReply
    /\ t_timeout = 0
    /\ DocumentIdle

\* the normalizer: one call on one input
Init ==
    /\ \/ OddInput(mineru_data)
       \/ NestedInput(mineru_data)
       \/ FlatInput(mineru_data)
       \/ GridInput(mineru_data)
       \/ LegacyInput(mineru_data)
       \/ MixedInput(mineru_data)
    /\ layout = <<>>
    /\ raised = FALSE
    /\ pc = "start"
    /\ TranslatorIdle
    /\ TranslateLayoutIdle
    /\ WaitIdle
    /\ FetchIdle
    /\ OthersIdle

\* routes.py 239-454: one call of parse_mineru_layout_from_data
Parse ==
    /\ pc = "start"
    /\ LET r == parse_mineru_layout_from_data(mineru_data)
       IN /\ layout' = r.ret
          /\ raised' = r.exc
    /\ pc' = "done"
    /\ UNCHANGED <<ovars, mineru_data, tvars, lvars, wvars, fvars>>

Next == Parse

Spec == Init /\ [][Next]_vars

\* the translation client: any credential configuration, a cache that is
\* there or not, any cache content
InitTranslate ==
    /\ NormalizerIdle
    /\ QWEN_API_KEY \in BOOLEAN
    /\ OPENAI_API_KEY \in BOOLEAN
    /\ has_cache \in BOOLEAN
    /\ \/ cache = [k \in CacheKeys |-> None]
       \/ \E k0 \in CacheKeys :
             cache = [k \in CacheKeys |-> IF k = k0 THEN Some(<<"X">>) ELSE None]
    /\ calls = 0
    /\ t_remote = 0
    /\ t_reads = 0
    /\ t_writes = 0
    /\ t_text = <<>>
    /\ t_lang = <<>>
    /\ t_ret = None
    /\ t_err = ""
    /\ t_provider = "none"
    /\ TranslateLayoutIdle
    /\ WaitIdle
    /\ FetchIdle
    /\ OthersIdle

\* translator_llm.py 44-201: one call of translate_with_llm
Translate ==
    /\ calls < MaxCalls
    /\ \E text \in Texts, target_lang \in Langs, reply \in Replies,
          getErr \in BOOLEAN, setErr \in BOOLEAN :
          LET e == translate_with_llm(text, target_lang, reply, getErr, setErr)
          IN \* an answer or a cache error the call never meets is not drawn
             /\ e.remote = 0 => reply = OkReply(<<>>)
             /\ e.reads = 0 => ~getErr
             /\ e.writes = 0 => ~setErr
             /\ t_text' = text
             /\ t_lang' = target_lang
             /\ t_ret' = e.ret
             /\ t_err' = e.err
             /\ t_provider' = e.provider
             /\ cache' = e.cache
             /\ t_remote' = e.remote
             /\ t_reads' = e.reads
             /\ t_writes' = e.writes
             /\ t_reply' = IF e.remote = 1 THEN reply ELSE NoReply
             /\ t_timeout' = IF e.writes = 1 THEN CacheTimeout ELSE 0
    /\ calls' = calls + 1
    /\ UNCHANGED <<svars, dvars, nvars, lvars, wvars, fvars, QWEN_API_KEY, OPENAI_API_KEY, has_cache>>

NextTranslate == Translate

SpecTranslate == InitTranslate /\ [][NextTranslate]_vars

\* a translate_layout request: any layout array, force_retranslate or not,
\* any credential configuration, a cache that is there or not
InitLayout ==
    /\ NormalizerIdle
    /\ QWEN_API_KEY \in BOOLEAN
    /\ OPENAI_API_KEY \in BOOLEAN
    /\ has_cache \in BOOLEAN
    /\ cache = [k \in CacheKeys |-> None]
    /\ calls = 0
    /\ t_remote = 0
    /\ t_reads = 0
    /\ t_writes = 0
    /\ t_text = <<>>
    /\ t_lang = <<>>
    /\ t_ret = None
    /\ t_err = ""
    /\ t_provider = "none"
    /\ \E n \in 0..MaxLayout : request_layout \in [1..n -> LayoutBlocks]
    /\ req_layout = request_layout
    /\ req_target_lang = <<"z", "h">>
    /\ force_retranslate \in BOOLEAN
    /\ block_idx = 0
    /\ translated_count = 0
    /\ skipped_count = 0
    /\ failed_count = 0
    /\ first_error = None
    /\ block_log = <<>>
    /\ tl_pc = "start"
    /\ WaitIdle
    /\ FetchIdle
    /\ OthersIdle

\* routes.py 656-683: an empty layout is rejected with status 400
BeginLayout ==
    /\ tl_pc = "start"
    /\ tl_pc' = IF req_layout = <<>> THEN "rejected" ELSE "loop"
    /\ UNCHANGED <<ovars, nvars, tvars, wvars, fvars, request_layout, req_layout, req_target_lang,
                   force_retranslate, block_idx, translated_count, skipped_count,
                   failed_count, first_error, block_log>>

\* routes.py 686-745: one iteration of the loop over the blocks
TranslateBlock ==
    /\ tl_pc = "loop"
    /\ block_idx < Len(req_layout)
    /\ LET block == req_layout[block_idx + 1]
       IN IF block = Junk
          THEN \* block.get raises outside the inner try: routes.py 798-814
               /\ tl_pc' = "aborted"
               /\ UNCHANGED <<req_layout, block_idx, translated_count, skipped_count,
                              failed_count, first_error, block_log, cache>>
          ELSE
          LET text == BlockText(block)
          IN /\ tl_pc' = "loop"
             /\ block_idx' = block_idx + 1
             /\ IF text = <<>>
                THEN /\ block_log' = Append(block_log, Logged("blank", 0, None, ""))
                     /\ UNCHANGED <<req_layout, translated_count, skipped_count,
                                    failed_count, first_error, cache>>
                ELSE IF SkipsBlock(force_retranslate, block)
                THEN /\ skipped_count' = skipped_count + 1
                     /\ block_log' = Append(block_log, Logged("skipped", 0, None, ""))
                     /\ UNCHANGED <<req_layout, translated_count, failed_count,
                                    first_error, cache>>
                ELSE \E reply \in LayoutReplies :
                     LET e == translate_with_llm(text, req_target_lang, reply,
                                                 FALSE, FALSE)
                     IN /\ e.remote = 0 => reply = OkReply(<<" ", "T">>)
                        /\ cache' = e.cache
                        /\ IF e.ret # None
                           THEN /\ req_layout' =
                                     [req_layout EXCEPT ![block_idx + 1].translated_text = e.ret]
                                /\ translated_count' = translated_count + 1
                                /\ block_log' = Append(block_log,
                                       Logged("translated", e.remote, e.ret, ""))
                                /\ UNCHANGED <<skipped_count, failed_count,
                                               first_error>>
                           ELSE /\ failed_count' = failed_count + 1
                                /\ first_error' = RecordFirstError(
                                       first_error, failed_count + 1, e.err)
                                /\ req_layout' =
                                     [req_layout EXCEPT ![block_idx + 1] =
                                          FailureFallback(block, text)]
                                /\ block_log' = Append(block_log,
                                       Logged("failed", e.remote, None, e.err))
                                /\ UNCHANGED <<translated_count, skipped_count>>
    /\ UNCHANGED <<ovars, nvars, wvars, fvars, QWEN_API_KEY, OPENAI_API_KEY, has_cache, calls,
                   t_remote, t_reads, t_writes, t_text, t_lang, t_ret, t_err,
                   t_provider, request_layout, req_target_lang, force_retranslate>>

\* routes.py 747-796: the loop is over, the response is built
FinishLayout ==
    /\ tl_pc = "loop"
    /\ block_idx = Len(req_layout)
    /\ tl_pc' = "done"
    /\ UNCHANGED <<ovars, nvars, tvars, wvars, fvars, request_layout, req_layout, req_target_lang,
                   force_retranslate, block_idx, translated_count, skipped_count,
                   failed_count, first_error, block_log>>

NextLayout == BeginLayout \/ TranslateBlock \/ FinishLayout

SpecLayout == InitLayout /\ [][NextLayout]_vars

\* a wait: any max_wait_time, any positive poll_interval
InitWait ==
    /\ NormalizerIdle
    /\ TranslatorIdle
    /\ TranslateLayoutIdle
    /\ max_wait_time \in 0..MaxWait
    /\ poll_interval \in 1..MaxInterval
    /\ start_time = 0
    /\ now = 0
    /\ poll_result = NoPoll
    /\ wait_ret = None
    /\ wait_err = ""
    /\ wait_err_msg = ""
    /\ wait_pc = "poll"
    /\ FetchIdle
    /\ OthersIdle

\* mineru_api.py 149-173: one call of get_task_result, which takes d
\* seconds, and the branch on the state it reports
Poll ==
    /\ wait_pc = "poll"
    /\ \E result \in Polls, d \in 0..1 :
          /\ now' = Tick(now, d)
          /\ poll_result' = result
          /\ IF result.kind = "error"
             THEN /\ wait_pc' = "raised"
                  /\ wait_err' = "poll-error"
                  /\ wait_ret' = None
                  /\ UNCHANGED wait_err_msg
             ELSE IF result.kind = "null"
             THEN \* result.get on None: mineru_api.py 150
                  /\ wait_pc' = "raised"
                  /\ wait_err' = "attribute-error"
                  /\ wait_ret' = None
                  /\ UNCHANGED wait_err_msg
             ELSE
             LET branch == WaitBranch(Get(result.state, ""))
                 elapsed == now' - start_time
             IN IF branch = "return"
                THEN /\ wait_pc' = "returned"
                     /\ wait_ret' = Some(result)
                     /\ wait_err' = ""
                     /\ UNCHANGED wait_err_msg
                ELSE IF branch = "raise"
                THEN \* mineru_api.py 158: the default stands for a missing err_msg
                     /\ wait_pc' = "raised"
                     /\ wait_err' = "task-failed"
                     /\ wait_err_msg' = Get(result.err_msg, "default")
                     /\ wait_ret' = None
                ELSE IF branch = "check" /\ elapsed > max_wait_time
                THEN /\ wait_pc' = "raised"
                     /\ wait_err' = "timeout"
                     /\ wait_ret' = None
                     /\ UNCHANGED wait_err_msg
                ELSE /\ wait_pc' = "sleep"
                     /\ UNCHANGED <<wait_ret, wait_err, wait_err_msg>>
    /\ UNCHANGED <<ovars, nvars, tvars, lvars, fvars, max_wait_time, poll_interval, start_time>>

\* mineru_api.py 175, 178: time.sleep(poll_interval)
Sleep ==
    /\ wait_pc = "sleep"
    /\ now' = Tick(now, poll_interval)
    /\ wait_pc' = "poll"
    /\ UNCHANGED <<ovars, nvars, tvars, lvars, fvars, max_wait_time, poll_interval, start_time,
                   poll_result, wait_ret, wait_err, wait_err_msg>>

NextWait == Poll \/ Sleep

\* the loop keeps running: a poll or a sleep that can be taken is taken
SpecWait == InitWait /\ [][NextWait]_vars /\ WF_vars(NextWait)

\* fetches and status queries for one id, from an empty directory on
InitFetch ==
    /\ NormalizerIdle
    /\ TranslatorIdle
    /\ TranslateLayoutIdle
    /\ WaitIdle
    /\ FetchIdle
    /\ OthersIdle

\* the files rglob may list first when download_and_extract_zip gets to
\* look at them (the top-level layout.json stands in when it does not)
FirstListed(got, dir) ==
    LET after == DirAfter(got, dir)
    IN IF got.kind = "zip" /\ File("", LayoutJson) \notin after
          /\ JsonFiles(after) # {}
       THEN Candidates(after)
       ELSE {File("", LayoutJson)}

\* mineru_api.py 181-242: one call of download_and_extract_zip
Fetch ==
    /\ requests < MaxRequests
    /\ \E got \in Downloads :
       \E first \in FirstListed(got, extract_dir) :
          /\ download' = got
          /\ zip_info' = download_and_extract_zip(got, extract_dir, first)
          /\ extract_dir' = DirAfter(got, extract_dir)
          /\ client_error' = zip_info'.err
    /\ dir_before' = extract_dir
    /\ query_poll' = NoPoll
    /\ response' = NoResponse
    /\ last_op' = "fetch"
    /\ requests' = requests + 1
    /\ UNCHANGED <<ovars, nvars, tvars, lvars, wvars>>

\* the query gets to the download: routes.py 472-474, 525-527
Downloading(poll) ==
    /\ poll.kind = "dict"
    /\ Get(poll.state, "") = "done"
    /\ Get(poll.full_zip_url, "") # ""

\* what the GET of the archive may give a query, if it makes one
DownloadsOf(poll) == IF Downloading(poll) THEN Downloads ELSE {DownloadFailed}

\* whether the result file reads as JSON, if the query gets to read it
ReadsOf(poll, got, dir, first) ==
    IF Downloading(poll) /\ ~download_and_extract_zip(got, dir, first).exc
    THEN BOOLEAN ELSE {TRUE}

\* the query q is over: its effects
Answer(poll, q, op) ==
    /\ query_poll' = poll
    /\ download' = q.download
    /\ zip_info' = q.zip_info
    /\ extract_dir' = q.dir
    /\ response' = q.response
    /\ client_error' = q.client_error
    /\ dir_before' = extract_dir
    /\ last_op' = op
    /\ requests' = requests + 1
    /\ UNCHANGED <<ovars, nvars, tvars, lvars, wvars>>

\* routes.py 457-500: one GET /task/<task_id>
GetTask ==
    /\ requests < MaxRequests
    /\ \E poll \in Polls :
       \E got \in DownloadsOf(poll) :
       \E first \in FirstListed(got, extract_dir) :
       \E json_ok \in ReadsOf(poll, got, extract_dir, first) :
          Answer(poll, get_mineru_task(poll, got, first, json_ok, extract_dir),
                 "task")

\* routes.py 503-569: one GET /batch/<batch_id>
GetBatch ==
    /\ requests < MaxRequests
    /\ \E poll \in Polls \cup {EmptyBatch} :
       \E got \in DownloadsOf(poll) :
       \E first \in FirstListed(got, extract_dir) :
       \E json_ok \in ReadsOf(poll, got, extract_dir, first) :
          Answer(poll, get_mineru_batch(poll, got, first, json_ok, extract_dir),
                 "batch")

NextFetch == Fetch \/ GetTask \/ GetBatch

SpecFetch == InitFetch /\ [][NextFetch]_vars

\* requests to the static retrieval endpoints, one per behaviour
InitStatic ==
    /\ NormalizerIdle
    /\ TranslatorIdle
    /\ TranslateLayoutIdle
    /\ WaitIdle
    /\ FetchIdle
    /\ OthersIdle

\* the values of a <path:...> converter: one to MaxSegs names
UrlPaths == UNION {[1..n -> Segs] : n \in 1..MaxSegs}

\* routes.py 909-932: one GET /mineru/<path:filename>
GetMineruFile ==
    /\ static_op = "none"
    /\ \E filename \in UrlPaths :
          /\ static_path' = mineru_folder \o filename
          /\ static_response' = get_mineru_file(filename)
    /\ static_op' = "file"
    /\ UNCHANGED <<nvars, tvars, lvars, wvars, fvars, t_reply, t_timeout, dvars>>

\* routes.py 980-1002: one GET /images/<task_id>/<path:image_name>
GetImage ==
    /\ static_op = "none"
    /\ \E task_id \in Segs, image_name \in UrlPaths :
          /\ static_path' = mineru_folder \o <<task_id, ImagesName>> \o image_name
          /\ static_response' = get_image(task_id, image_name)
    /\ static_op' = "image"
    /\ UNCHANGED <<nvars, tvars, lvars, wvars, fvars, t_reply, t_timeout, dvars>>

NextStatic == GetMineruFile \/ GetImage

SpecStatic == InitStatic /\ [][NextStatic]_vars

\* a translate-document request: any document of at most MaxDocBlocks
\* blocks on two pages, the primary credential configured or not
InitDocument ==
    /\ NormalizerIdle
    /\ QWEN_API_KEY \in BOOLEAN
    /\ OPENAI_API_KEY = FALSE
    /\ has_cache \in BOOLEAN
    /\ cache = [k \in CacheKeys |-> None]
    /\ calls = 0
    /\ t_remote = 0
    /\ t_reads = 0
    /\ t_writes = 0
    /\ t_text = <<>>
    /\ t_lang = <<>>
    /\ t_ret = None
    /\ t_err = ""
    /\ t_provider = "none"
    /\ TranslateLayoutIdle
    /\ WaitIdle
    /\ FetchIdle
    /\ StaticIdle
    /\ t_reply = NoReply
    /\ t_timeout = 0
    /\ \E n \in 0..MaxDocBlocks :
       \E blocks \in [1..n -> DocBlocks] :
       \E k \in 0..n :
          doc_input = <<DocPage(SubSeq(blocks, 1, k)),
                        DocPage(SubSeq(blocks, k + 1, n))>>
    /\ doc_data = <<>>
    /\ doc_pos = 0
    /\ doc_log = <<>>
    /\ output_file = None
    /\ doc_pc = "start"

\* translator_llm.py 222-227: the input file is read; the read may fail
LoadDocument ==
    /\ doc_pc = "start"
    /\ \E read_ok \in BOOLEAN :
          IF read_ok
          THEN /\ doc_data' = doc_input
               /\ doc_pc' = "loop"
          ELSE \* FileNotFoundError, JSONDecodeError: 261-266
               /\ doc_data' = doc_data
               /\ doc_pc' = "failed"
    /\ UNCHANGED <<nvars, tvars, lvars, wvars, fvars, svars, t_reply, t_timeout,
                   doc_input, doc_pos, doc_log, output_file>>

\* translator_llm.py 230-248: one iteration of the inner loop
TranslateDocBlock ==
    /\ doc_pc = "loop"
    /\ doc_pos < Len(Positions(doc_data))
    /\ LET pos == Positions(doc_data)[doc_pos + 1]
           block == doc_data[pos[1]].blocks[pos[2]]
       IN IF block = Junk
          THEN \* block.get raises
               /\ doc_pc' = AfterFailure(doc_pc)
               /\ UNCHANGED <<doc_data, doc_pos, doc_log, cache>>
          ELSE IF Get(block.type, "") # "text"
          THEN /\ doc_pos' = doc_pos + 1
               /\ doc_log' = Append(doc_log, DocLogged("other", <<>>, None))
               /\ UNCHANGED <<doc_data, doc_pc, cache>>
          ELSE IF original_text(block) = <<>>
          THEN /\ doc_pos' = doc_pos + 1
               /\ doc_log' = Append(doc_log, DocLogged("blank", <<>>, None))
               /\ UNCHANGED <<doc_data, doc_pc, cache>>
          ELSE \E reply \in LayoutReplies :
               LET e == translate_with_llm(original_text(block), <<"z", "h">>,
                                           reply, FALSE, FALSE)
               IN /\ e.remote = 0 => reply = OkReply(<<" ", "T">>)
                  /\ cache' = e.cache
                  /\ IF e.ret # None
                     THEN /\ doc_data' =
                               [doc_data EXCEPT
                                  ![pos[1]].blocks[pos[2]].translated_text = e.ret]
                          /\ doc_pos' = doc_pos + 1
                          /\ doc_log' = Append(doc_log,
                                 DocLogged("translated", original_text(block), e.ret))
                          /\ UNCHANGED doc_pc
                     ELSE /\ doc_pc' = AfterFailure(doc_pc)
                          /\ doc_pos' = doc_pos + 1
                          /\ doc_log' = Append(doc_log,
                                 DocLogged("failed", original_text(block), None))
                          /\ UNCHANGED doc_data
    /\ UNCHANGED <<nvars, lvars, wvars, fvars, svars, t_reply, t_timeout,
                   QWEN_API_KEY, OPENAI_API_KEY, has_cache, calls,
                   t_remote, t_reads, t_writes, t_text, t_lang, t_ret, t_err,
                   t_provider, doc_input, output_file>>

\* translator_llm.py 250-259: the loops are over, the output file is
\* written (translate_document always gives an output_path)
SaveDocument ==
    /\ doc_pc = "loop"
    /\ doc_pos = Len(Positions(doc_data))
    /\ output_file' = Some(doc_data)
    /\ doc_pc' = "written"
    /\ UNCHANGED <<nvars, tvars, lvars, wvars, fvars, svars, t_reply, t_timeout,
                   doc_input, doc_data, doc_pos, doc_log>>

NextDocument == LoadDocument \/ TranslateDocBlock \/ SaveDocument

SpecDocument == InitDocument /\ [][NextDocument]_vars

-----------------------------------------------------------------------------
(* Properties of the Layout Normalizer *)

Blocks == {layout[i] : i \in 1..Len(layout)}

\* the value the function hands back for the result r of a piece of its body
Extracted(r) == IF r.exc THEN <<>> ELSE r.ret

\* C1: every emitted block has type "text" or "title", whatever the shape
\* of the input.
C1_TypeTextOrTitle ==
    pc = "done" => \A b \in Blocks : b.type \in {"text", "title"}

\* C2: no emitted block has a text that is empty after trimming, that is,
\* every emitted text holds a character that is not whitespace.
C2_NoBlankText ==
    pc = "done" =>
        \A b \in Blocks : \E k \in 1..Len(b.text) : b.text[k] # " "

\* C2 witness: a flat-item list with an item whose text is whitespace only
\* was normalized, and another item of the list was emitted.
C2_Witness ==
    /\ pc = "done"
    /\ mineru_data.kind = "list"
    /\ Len(mineru_data.items) >= 2
    /\ IsFlatItem(mineru_data.items[1])
    /\ \E i \in 1..Len(mineru_data.items) :
          /\ mineru_data.items[i].kind = "dict"
          /\ mineru_data.items[i].text = Some(<<" ">>)
          /\ Len(Get(mineru_data.items[i].bbox, <<>>)) >= 4
    /\ Len(layout) = 1

\* C3: every emitted block has a bbox of at least 4 components (in the
\* legacy shape a shorter source bbox would be replaced by [0,0,0,0]).
C3_BBoxAtLeast4 ==
    pc = "done" => \A b \in Blocks : Len(b.bbox) >= 4

\* C4: every emitted block has a page >= 1, whatever integers the page
\* fields of the input hold.
C4_PagePositive ==
    pc = "done" => \A b \in Blocks : b.page >= 1

\* C5: the first matching shape alone determines the output, in the order
\* nested-paragraph, flat-item, page-grid, legacy.
C5_DetectionOrder ==
    pc = "done" /\ ~Falsy(mineru_data) /\ mineru_data.kind \in {"dict", "list"} =>
        LET d == mineru_data IN
        IF d.kind = "dict" /\ d.pdf_info # None
        THEN layout = Extracted(NestedPageLoop(d.pdf_info[1], 1))
        ELSE IF d.kind = "list" /\ IsFlatItem(d.items[1])
        THEN layout = Extracted(FlatLoop(d.items, 1))
        ELSE IF d.kind = "list" /\ d.items[1].kind = "list"
        THEN layout = GridLoop(d.items, 0)
        ELSE IF d.kind = "dict" /\ d.pages # None
        THEN layout = Extracted(LegacyPageLoop(d.pages[1], 1))
        ELSE layout = <<>>

\* C5 witness: an object holding both pdf_info and pages was normalized, its
\* output is not empty and is not what the legacy extraction of pages gives.
C5_Witness ==
    /\ pc = "done"
    /\ mineru_data.kind = "dict"
    /\ mineru_data.pdf_info # None
    /\ mineru_data.pages # None
    /\ layout # <<>>
    /\ Extracted(LegacyPageLoop(mineru_data.pages[1], 1)) # <<>>
    /\ layout # Extracted(LegacyPageLoop(mineru_data.pages[1], 1))

\* the input matches the discriminator of none of the four shapes
NoShape(d) ==
    \/ d.kind \in {"none", "junk", "str"}
    \/ d.kind = "dict" /\ d.pdf_info = None /\ Get(d.pages, <<>>) = <<>>
    \/ d.kind = "list" /\ (d.items = <<>> \/
                            (~IsFlatItem(d.items[1]) /\ d.items[1].kind # "list"))

\* C6: the normalizer never raises, and an input of no shape gives the
\* empty sequence.
C6_NeverRaises ==
    pc = "done" => /\ raised = FALSE
                   /\ NoShape(mineru_data) => layout = <<>>

\* C6 witness: the body of the function raised on the input (a number, a
\* list of no shape, a later element that is no object) and the call
\* returned the empty sequence.
C6_Witness ==
    /\ pc = "done"
    /\ ParseBody(mineru_data).exc
    /\ mineru_data.kind = "list"
    /\ Len(mineru_data.items) >= 2
    /\ raised = FALSE
    /\ layout = <<>>

\* src positions in document order
Before(s, t) == s[1] < t[1] \/ (s[1] = t[1] /\ s[2] < t[2])

\* C8: the output keeps the document order of the input: of two emitted
\* blocks, the one whose source block comes first is first.
C8_DocumentOrder ==
    pc = "done" =>
        \A i \in 1..Len(layout), j \in 1..Len(layout) :
            i < j => Before(layout[i].src, layout[j].src)

\* C8 witness: two blocks were emitted, the first with a larger page number
\* than the second (a sort by page number would have swapped them).
C8_Witness ==
    /\ pc = "done"
    /\ Len(layout) >= 2
    /\ \E i \in 1..(Len(layout) - 1) : layout[i].page > layout[i + 1].page

\* the content of every span of every line, the empty ones included
RECURSIVE C9_SpanContents(_)
C9_SpanContents(spans) ==
    IF spans = <<>> THEN <<>>
    ELSE (IF Head(spans).kind = "dict" /\ Head(spans).content # None
          THEN Head(spans).content ELSE <<>>)
         \o C9_SpanContents(Tail(spans))

RECURSIVE C9_Contents(_)
C9_Contents(lines) ==
    IF lines = <<>> THEN <<>>
    ELSE (IF Head(lines).kind = "dict"
          THEN C9_SpanContents(Get(Head(lines).spans, <<>>)) ELSE <<>>)
         \o C9_Contents(Tail(lines))

NonEmptyStr(c) == c # <<>>

\* the span contents joined by single spaces and trimmed; with skipEmpty the
\* empty contents are left out of the join
C9_Text(block, skipEmpty) ==
    LET all == C9_Contents(Get(block.lines, <<>>))
    IN Strip(Join(IF skipEmpty THEN SelectSeq(all, NonEmptyStr) ELSE all))

C9_Qualifies(block, skipEmpty) ==
    /\ Get(block.type, "") \in {"text", "title"}
    /\ Len(Get(block.bbox, <<>>)) >= 4
    /\ C9_Text(block, skipEmpty) # <<>>

RECURSIVE C9_PageExpected(_, _, _)
C9_PageExpected(page_idx, blocks, skipEmpty) ==
    IF blocks = <<>> THEN <<>>
    ELSE (IF C9_Qualifies(Head(blocks), skipEmpty)
          THEN <<[page |-> page_idx + 1, bbox |-> Head(blocks).bbox[1],
                  text |-> C9_Text(Head(blocks), skipEmpty),
                  type |-> Head(blocks).type[1]]>>
          ELSE <<>>)
         \o C9_PageExpected(page_idx, Tail(blocks), skipEmpty)

\* one block for each qualifying para block, in document order
RECURSIVE C9_Expected(_, _)
C9_Expected(pdf_info, skipEmpty) ==
    IF pdf_info = <<>> THEN <<>>
    ELSE C9_PageExpected(Get(Head(pdf_info).page_idx, 0),
                         Get(Head(pdf_info).para_blocks, <<>>), skipEmpty)
         \o C9_Expected(Tail(pdf_info), skipEmpty)

\* a nested-paragraph input whose page entries and para blocks are objects
C9_NestedInput(d) ==
    /\ d.kind = "dict"
    /\ d.pdf_info # None
    /\ \A i \in 1..Len(d.pdf_info[1]) :
          /\ d.pdf_info[1][i].kind = "dict"
          /\ \A j \in 1..Len(Get(d.pdf_info[1][i].para_blocks, <<>>)) :
                d.pdf_info[1][i].para_blocks[1][j].kind = "dict"

C9_Same(out, expected) ==
    /\ Len(out) = Len(expected)
    /\ \A i \in 1..Len(out) :
          /\ out[i].page = expected[i].page
          /\ out[i].bbox = expected[i].bbox
          /\ out[i].text = expected[i].text
          /\ out[i].type = expected[i].type

\* C9 as stated: for a nested-paragraph input exactly one block is emitted
\* for each para block of type text or title with a bbox of at least 4
\* components and a non-empty trimmed join of its span contents, with page =
\* page_idx + 1, the source bbox, that joined text and the source type.
C9_NestedExact ==
    pc = "done" /\ C9_NestedInput(mineru_data) =>
        C9_Same(layout, C9_Expected(mineru_data.pdf_info[1], FALSE))

\* C9 amended: the same, the text being the join of the non-empty span
\* contents (an empty content adds no separator).
C9_NestedExactNonEmptySpans ==
    pc = "done" /\ C9_NestedInput(mineru_data) =>
        C9_Same(layout, C9_Expected(mineru_data.pdf_info[1], TRUE))

\* C9 witness: a nested-paragraph input with an empty span content between
\* two non-empty ones was normalized and its block emitted.
C9_Witness ==
    /\ pc = "done"
    /\ C9_NestedInput(mineru_data)
    /\ layout # <<>>
    /\ ~C9_Same(layout, C9_Expected(mineru_data.pdf_info[1], FALSE))

-----------------------------------------------------------------------------
(* Properties of the legacy shape *)

\* the input is of the legacy shape, with one page entry that holds one
\* block, and the call emitted that block
LegacyOneBlock ==
    /\ pc = "done"
    /\ mineru_data.kind = "dict"
    /\ mineru_data.pdf_info = None
    /\ mineru_data.pages # None
    /\ Len(mineru_data.pages[1]) = 1
    /\ mineru_data.pages[1][1].kind = "dict"
    /\ mineru_data.pages[1][1].blocks # None
    /\ Len(mineru_data.pages[1][1].blocks[1]) = 1
    /\ Len(layout) = 1

LegacyPage == mineru_data.pages[1][1]
LegacyBlock == LegacyPage.blocks[1][1]

\* the first of the optional fields that qualifies, else the default
FirstOf(fields, qualifies(_), default) ==
    LET ks == {k \in 1..Len(fields) : qualifies(fields[k])}
    IN IF ks = {} THEN default
       ELSE fields[CHOOSE k \in ks : \A j \in ks : k <= j][1]

Present(opt) == opt # None
NonZero(opt) == opt # None /\ opt[1] # 0
NonEmpty(opt) == opt # None /\ opt[1] # <<>>

\* what the lines of the block contribute: of each line its text, or its
\* content when the text is empty or absent, empty contributions left out
LegacyLineTexts ==
    LET lines == LegacyBlock.lines[1]
        of(k) == IF NonEmpty(lines[k].text) THEN lines[k].text[1]
                 ELSE Get(lines[k].content, <<>>)
        RECURSIVE From(_)
        From(k) == IF k > Len(lines) THEN <<>>
                   ELSE (IF lines[k].kind = "dict" /\ of(k) # <<>>
                         THEN <<of(k)>> ELSE <<>>) \o From(k + 1)
    IN From(1)

C23_Outcome(qualifiesNo(_), qualifiesBox(_)) ==
    LegacyOneBlock =>
        /\ layout[1].page =
              FirstOf(<<LegacyPage.page_no, LegacyPage.page, LegacyPage.pageNo>>,
                      qualifiesNo, Get(LegacyPage.page_idx, 0) + 1)
        /\ layout[1].bbox =
              FirstOf(<<LegacyBlock.bbox, LegacyBlock.bbox_coords>>,
                      qualifiesBox, <<0, 0, 0, 0>>)
        /\ layout[1].text = Strip(Join(LegacyLineTexts))

\* C23: in the legacy shape the page number is the value of the first
\* field present among page_no, page, pageNo, and page_idx + 1 only when
\* none is present; the bbox is the value of the first field present among
\* bbox, bbox_coords, and [0,0,0,0] only when neither is present; each line
\* contributes its text, or its content when the text is empty.
C23_FirstPresentWins == C23_Outcome(Present, Present)

\* C23, amended: a field whose value is 0 (page number) or empty (bbox), or
\* null, counts as absent: the first field with a non-zero number, resp. a
\* non-empty bbox, wins.
C23_FirstTruthyWins == C23_Outcome(NonZero, NonEmpty)

\* C23 witness: page_no is present with value 0 and page is 3; the block
\* was emitted on page 3.
C23_Witness ==
    /\ LegacyOneBlock
    /\ LegacyPage.page_no = Some(0)
    /\ LegacyPage.page = Some(3)
    /\ layout[1].page = 3

-----------------------------------------------------------------------------
(* Properties of the batch translation pass *)

\* the positions of the blocks the loop took the given branch for
Took(branch) == {i \in 1..Len(block_log) : block_log[i].branch = branch}

\* the request holds only objects with non-blank text and no translated_text
AllUntranslated ==
    \A i \in 1..Len(request_layout) :
        /\ request_layout[i] # Junk
        /\ BlockText(request_layout[i]) # <<>>
        /\ request_layout[i].translated_text = None

\* the outcome of a pass over N non-blank untranslated blocks whose failed
\* blocks are F; fallback(block) is the text a failed block is to carry
C13_Outcome(fallback(_)) ==
    AllUntranslated =>
        /\ tl_pc # "aborted"
        /\ \A i \in Took("failed") :
               /\ block_log[i].remote = 1
               /\ req_layout[i].translated_text = Some(fallback(request_layout[i]))
        /\ tl_pc = "done" =>
               /\ Len(block_log) = Len(request_layout)
               /\ failed_count = Cardinality(Took("failed"))
               /\ translated_count =
                      Len(request_layout) - Cardinality(Took("failed"))
               /\ Took("failed") # {} =>
                      first_error # None /\ first_error[1] # ""

\* the text of a block as the request holds it
OriginalText(block) == Get(block.text, <<>>)

\* C13 as stated: a pass over N non-blank untranslated blocks never aborts
\* on a failed block, and ends with failed_count = |F|, translated_count =
\* N - |F|, first_error set when F is not empty, and each failed block's
\* translated_text equal to the block's original text.
C13_PartialFailureOriginalText == C13_Outcome(OriginalText)

\* C13 amended: the same, with each failed block's translated_text equal to
\* the block's text with leading and trailing whitespace removed.
C13_PartialFailureTrimmedText == C13_Outcome(BlockText)

\* C13 witness: three blocks, the second one (text with a leading blank)
\* failed and the third one was translated after it.
C13_Witness ==
    /\ tl_pc = "done"
    /\ AllUntranslated
    /\ Len(block_log) = 3
    /\ block_log[1].branch = "translated"
    /\ block_log[2].branch = "failed"
    /\ block_log[3].branch = "translated"
    /\ request_layout[2].text = Some(<<" ", "a">>)
    /\ failed_count = 1
    /\ translated_count = 2

\* the positions of blocks gone through that arrived with a translation
Carried == {i \in 1..Len(block_log) :
                request_layout[i] # Junk /\ HasTranslation(request_layout[i])}

\* the counters count the blocks skipped and the blocks translated
CountsMatchLog ==
    /\ skipped_count = Cardinality(Took("skipped"))
    /\ translated_count = Cardinality(Took("translated"))

\* C14 as stated: a block that arrives with a translated_text keeps it, is
\* counted in skipped_count and not in translated_count, and causes no
\* remote call when force_retranslate is false; when force_retranslate is
\* true the remote call is issued for it and translated_text is overwritten
\* with the new result.
C14_SkipOrRetranslate ==
    /\ CountsMatchLog
    /\ \A i \in Carried :
          IF ~force_retranslate
          THEN /\ req_layout[i] = request_layout[i]
               /\ block_log[i].branch = "skipped"
               /\ block_log[i].remote = 0
          ELSE /\ block_log[i].remote = 1
               /\ block_log[i].ret # None
               /\ req_layout[i].translated_text = block_log[i].ret

\* C14 amended: the same for blocks with non-blank text (a blank block is
\* passed over before the test and counted nowhere); with force_retranslate
\* translate is called for the block: translated_text becomes the value it
\* returns, which comes from a remote call unless the cache holds the pair
\* or no credential is configured, and stays as it was when translate fails.
C14_SkipOrRetranslateNonBlank ==
    /\ CountsMatchLog
    /\ \A i \in Carried :
          LET text == BlockText(request_layout[i])
              entry == block_log[i]
          IN IF text = <<>>
             THEN /\ req_layout[i] = request_layout[i]
                  /\ entry.branch = "blank"
                  /\ entry.remote = 0
             ELSE IF ~force_retranslate
             THEN /\ req_layout[i] = request_layout[i]
                  /\ entry.branch = "skipped"
                  /\ entry.remote = 0
             ELSE /\ entry.branch \in {"translated", "failed"}
                  /\ entry.branch = "translated" =>
                        /\ entry.ret # None
                        /\ req_layout[i].translated_text = entry.ret
                        /\ entry.remote = 0 =>
                              \/ /\ ResolveProvider(QWEN_API_KEY, OPENAI_API_KEY) = "none"
                                 /\ entry.ret = Some(text)
                              \/ /\ has_cache
                                 /\ cache[get_translation_cache_key(text, req_target_lang)]
                                        = entry.ret
                  /\ entry.branch = "failed" =>
                        /\ entry.remote = 1
                        /\ req_layout[i] = request_layout[i]

\* C14 witness: with force_retranslate a block that arrived with "X" was
\* sent to the endpoint and now carries the new translation.
C14_Witness ==
    /\ force_retranslate
    /\ Len(block_log) >= 1
    /\ request_layout[1] = Blk(Some(<<"a">>), Some(<<"X">>))
    /\ block_log[1].remote = 1
    /\ req_layout[1].translated_text = Some(<<"T">>)

\* the blocks of a finished pass all carry a translated_text, and a failed
\* block carries fallback(block) if it arrived without a translation and
\* what it arrived with otherwise; all says whether blank blocks count too
C15_Outcome(fallback(_), all) ==
    tl_pc = "done" =>
        \A i \in 1..Len(req_layout) :
            /\ all \/ BlockText(request_layout[i]) # <<>> =>
                   req_layout[i].translated_text # None
            /\ block_log[i].branch = "failed" =>
                   req_layout[i].translated_text =
                       IF HasTranslation(request_layout[i])
                       THEN request_layout[i].translated_text
                       ELSE Some(fallback(request_layout[i]))

\* C15 as stated: after a pass no block is left without a translated_text;
\* a failed block that had no translation carries its original text, and a
\* failed block that had one keeps it.
C15_NoBlockWithoutTranslation == C15_Outcome(OriginalText, TRUE)

\* C15 amended: after a pass no block with non-blank text is left without a
\* translated_text; a failed block that had no translation carries its text
\* with leading and trailing whitespace removed, and a failed block that
\* had one keeps it.
C15_NoTextBlockWithoutTranslation == C15_Outcome(BlockText, FALSE)

\* C15 witness: under force_retranslate a block with a translation and a
\* block without one both failed; the pass is over.
C15_Witness ==
    /\ tl_pc = "done"
    /\ Len(block_log) = 2
    /\ block_log[1].branch = "failed"
    /\ block_log[2].branch = "failed"
    /\ request_layout[1].translated_text = Some(<<"X">>)
    /\ req_layout[1].translated_text = Some(<<"X">>)
    /\ request_layout[2].translated_text = None
    /\ req_layout[2].translated_text = Some(<<"a">>)

\* first_error is unset while no block has failed, and then the message of
\* the failing block that comes first; failed_count counts the failures
FirstErrorIsEarliest ==
    /\ failed_count = Cardinality(Took("failed"))
    /\ first_error =
          IF Took("failed") = {} THEN None
          ELSE LET i == CHOOSE i \in Took("failed") :
                            \A j \in Took("failed") : i <= j
               IN Some(block_log[i].err)
    /\ tl_pc = "done" => (first_error = None <=> failed_count = 0)

\* once set, first_error stays as it is
FirstErrorKept == first_error # None => first_error' = first_error

\* C26: during a translate_layout pass first_error is unset until the first
\* per-block failure, is then the message of the failing block that comes
\* earliest in iteration order, and never changes afterwards however many
\* later blocks fail; it is absent from the result exactly when
\* failed_count is 0.
C26_FirstErrorOnly == []FirstErrorIsEarliest /\ [][FirstErrorKept]_vars

\* C26 witness: two blocks failed with different messages and the pass
\* ended with the first block's message as first_error.
C26_Witness ==
    /\ tl_pc = "done"
    /\ Len(block_log) >= 2
    /\ block_log[1].err = "authentication"
    /\ block_log[2].err = "generic"
    /\ failed_count = 2
    /\ first_error = Some("authentication")

\* the positions of the blocks gone through whose text is not blank
NonBlankDone ==
    {i \in 1..block_idx : \E c \in 1..Len(request_layout[i].text[1]) :
                              request_layout[i].text[1][c] # " "}

\* every non-blank block gone through is in exactly one of the three
\* counts, and no other block is in any
CountedOnce ==
    /\ translated_count = Cardinality(Took("translated"))
    /\ skipped_count = Cardinality(Took("skipped"))
    /\ failed_count = Cardinality(Took("failed"))
    /\ Took("translated") \cup Took("skipped") \cup Took("failed") = NonBlankDone
    /\ translated_count + skipped_count + failed_count = Cardinality(NonBlankDone)
    /\ translated_count + skipped_count + failed_count <= Len(request_layout)
    /\ tl_pc = "done" => block_idx = Len(request_layout)

\* no counter decreases
CountersGrow ==
    /\ translated_count' >= translated_count
    /\ skipped_count' >= skipped_count
    /\ failed_count' >= failed_count

\* C27: at every point of a translate_layout pass each processed block with
\* non-empty trimmed text has been counted in exactly one of
\* translated_count, skipped_count and failed_count, so on completion their
\* sum is the number of blocks with non-empty trimmed text and at most
\* total_count; the three counters never decrease.
C27_CountersPartition == []CountedOnce /\ [][CountersGrow]_vars

\* C27 witness: a pass over three blocks ended with one block translated,
\* one skipped and one failed.
C27_Witness ==
    /\ tl_pc = "done"
    /\ Len(request_layout) = 3
    /\ translated_count = 1
    /\ skipped_count = 1
    /\ failed_count = 1

\* no credential is configured and no block of the request is an element
\* that is no object or arrives with a translation
NoCredentialPass ==
    /\ ~QWEN_API_KEY
    /\ ~OPENAI_API_KEY
    /\ \A i \in 1..Len(request_layout) :
          /\ request_layout[i] # Junk
          /\ Get(request_layout[i].translated_text, <<>>) = <<>>

\* the trimmed text of the i-th block of the request
TrimmedText(i) == Strip(request_layout[i].text[1])

\* C30: with no credential configured and an empty cache, a translate_layout
\* pass over blocks without existing translations reports failed_count = 0
\* and no first_error, counts every block with non-empty text in
\* translated_count and sets each such block's translated_text to its own
\* trimmed text; no remote call is issued during the pass.
C30_NoCredentialPass ==
    NoCredentialPass =>
        /\ tl_pc # "aborted"
        /\ failed_count = 0
        /\ first_error = None
        /\ \A i \in 1..Len(block_log) : block_log[i].remote = 0
        /\ translated_count =
              Cardinality({i \in 1..block_idx : TrimmedText(i) # <<>>})
        /\ \A i \in 1..block_idx :
              req_layout[i].translated_text =
                  IF TrimmedText(i) # <<>> THEN Some(TrimmedText(i))
                  ELSE request_layout[i].translated_text
        /\ tl_pc = "done" => block_idx = Len(request_layout)

\* C30 witness: a pass without credentials over a blank block, a block "a"
\* and a block " a" ended with two blocks counted, both carrying "a".
C30_Witness ==
    /\ tl_pc = "done"
    /\ NoCredentialPass
    /\ Len(request_layout) = 3
    /\ request_layout[1].text = Some(<<" ">>)
    /\ request_layout[2].text = Some(<<"a">>)
    /\ request_layout[3].text = Some(<<" ", "a">>)
    /\ translated_count = 2
    /\ req_layout[3].translated_text = Some(<<"a">>)

-----------------------------------------------------------------------------
(* Properties of the Remote Task Client *)

WaitOver == wait_pc \in {"returned", "raised"}

\* C16: wait_for_task_completion always terminates: whatever the polls
\* report (a source that never reports done or failed included, be its
\* state running or unrecognized), the wait ends, by a timeout at the latest.
C16_WaitTerminates == <>WaitOver

\* the state the last poll reported, "" when it holds none
LastState == Get(poll_result.state, "")

\* C17: the wait returns only when the most recent poll reported done, and
\* returns that poll's result; it fails with the task's err_msg as soon as a
\* poll reports failed; it neither returns nor reports a task failure on a
\* poll that reported another state; a poll that fails ends the wait with
\* its error, and no further poll is made.
C17_WaitOutcome ==
    /\ wait_pc = "returned" =>
          /\ poll_result.kind = "dict"
          /\ LastState = "done"
          /\ wait_ret = Some(poll_result)
    /\ poll_result.kind = "dict" /\ LastState = "failed" =>
          /\ wait_pc = "raised"
          /\ wait_err = "task-failed"
          /\ poll_result.err_msg # None =>
                wait_err_msg = poll_result.err_msg[1]
    /\ wait_err = "task-failed" =>
          /\ poll_result.kind = "dict"
          /\ LastState = "failed"
    /\ poll_result.kind = "dict" /\ LastState \notin {"done", "failed"} =>
          /\ wait_pc # "returned"
          /\ wait_err \in {"", "timeout"}
    /\ poll_result.kind \in {"error", "null"} =>
          /\ wait_pc = "raised"
          /\ wait_err = IF poll_result.kind = "error"
                        THEN "poll-error" ELSE "attribute-error"
    /\ WaitOver => ~ENABLED NextWait

\* C17 witness: after a poll that did not end the wait and one sleep, a
\* poll reported done, and the wait returned that poll's result.
C17_Witness ==
    /\ wait_pc = "returned"
    /\ now = poll_interval
    /\ wait_ret = Some(TaskData(Some("done"), None, Some("u2")))

\* the last poll did not report an unrecognized state
RecognizedState ==
    poll_result.kind = "dict" => WaitBranch(LastState) # "sleep"

\* the wait does end when no poll ever reports an unrecognized state: the
\* timeout test of mineru_api.py 163-165 is reached on every other state
WaitEndsOnRecognizedStates == []RecognizedState => <>WaitOver

\* the last operation downloaded an archive and download_and_extract_zip
\* returned
Unpacked == download.kind = "zip" /\ ~zip_info.exc

\* C18: download_and_extract_zip selects the result JSON of the archive by
\* priority: a file named exactly layout.json if the archive holds one,
\* otherwise a JSON file whose name holds "layout" or "model" in any case,
\* otherwise a JSON file of the archive; whenever it returns, json_path is
\* not null and names a JSON file of the archive.
C18_PrioritySelection ==
    Unpacked =>
        /\ zip_info.json_path # None
        /\ LET chosen == zip_info.json_path[1]
               exact == {f \in download.files : f.name = LayoutJson}
               named == {f \in JsonFiles(download.files) :
                             HasLayoutOrModel(f.name)}
           IN /\ IsJsonName(chosen.name)
              /\ chosen \in download.files
              /\ exact # {} => chosen \in exact
              /\ named # {} => chosen \in named

\* C19: download_and_extract_zip fails with the no-JSON error whenever the
\* archive holds no JSON file, whatever the destination directory held
\* before the call.
C19_NoJsonFails ==
    download.kind = "zip" /\ JsonFiles(download.files) = {} =>
        /\ zip_info.exc
        /\ zip_info.err = "no-json"

\* C20: whenever the Remote Task Client raised a failure during a status
\* query (the poll, the download of the archive, its extraction or the
\* lookup of the result file), the envelope sent has success = false.
C20_ClientErrorsFailTheRequest ==
    last_op \in {"task", "batch"} /\ client_error # "" => ~response.success

\* the last operation was a status query
WasQuery == last_op \in {"task", "batch"}

\* the poll of the last query answered done, with a full_zip_url
SawDone ==
    /\ query_poll.kind = "dict"
    /\ Get(query_poll.state, "") = "done"
    /\ Get(query_poll.full_zip_url, "") # ""

\* a query requests the archive exactly when its poll saw done, and a layout
\* is in its answer only when that archive was unpacked
FetchedIffDone ==
    WasQuery =>
        /\ download.kind # "none" <=> SawDone
        /\ response.layout => download.kind = "zip" /\ ~zip_info.exc

\* a query that follows a query which saw done, and sees done too, makes
\* its own download
RefetchedStep ==
    WasQuery /\ SawDone /\ WasQuery' /\ SawDone' /\ requests' = requests + 1
        => download'.kind # "none"

-----------------------------------------------------------------------------
(* Properties of translate-document *)

\* the block at the k-th position of the pages
DocBlockAt(pages, k) ==
    pages[Positions(pages)[k][1]].blocks[Positions(pages)[k][2]]

\* the block is of type text and its lines give a text that is not blank
NeedsTranslation(block) ==
    /\ block # Junk
    /\ Get(block.type, "") = "text"
    /\ original_text(block) # <<>>

\* a failure is the last thing that happened and ended the operation:
\* nothing was written and no later block was touched
FailureEnds ==
    /\ \A i \in 1..Len(doc_log) :
          doc_log[i].branch = "failed" => i = Len(doc_log) /\ doc_pc = "failed"
    /\ doc_pc = "failed" =>
          /\ output_file = None
          /\ ~ENABLED NextDocument
          /\ doc_data # <<>> =>
                \A k \in (doc_pos + 1)..Len(Positions(doc_input)) :
                    DocBlockAt(doc_data, k) = DocBlockAt(doc_input, k)

\* the file is written at the end only, when no block failed, and holds a
\* translated_text for every block that needed one
WrittenWhole ==
    output_file # None =>
        /\ doc_pc = "written"
        /\ \A i \in 1..Len(doc_log) : doc_log[i].branch # "failed"
        /\ \A k \in 1..Len(Positions(doc_input)) :
              NeedsTranslation(DocBlockAt(doc_input, k)) =>
                  DocBlockAt(output_file[1], k).translated_text # None

\* C29: translate_mineru_json is all-or-nothing: if the translation of a
\* block fails the operation fails at that block, later blocks are not
\* translated and no output file is written; the output file is written
\* only after every block of type text with non-empty text in the
\* pages/blocks structure received a translated_text.
C29_AllOrNothing == FailureEnds /\ WrittenWhole

\* C29 witness: of three blocks the first was translated and the second
\* failed; the operation failed with the third block untouched and no
\* output file.
C29_Witness ==
    /\ doc_pc = "failed"
    /\ Len(Positions(doc_input)) = 3
    /\ Len(doc_log) = 2
    /\ doc_log[1].branch = "translated"
    /\ doc_log[2].branch = "failed"
    /\ NeedsTranslation(DocBlockAt(doc_input, 3))
    /\ DocBlockAt(doc_data, 3).translated_text = None
    /\ output_file = None

-----------------------------------------------------------------------------
(* Properties of static retrieval *)

\* the output root or a descendant of it
WithinRoot(path) ==
    /\ Len(path) >= Len(mineru_folder)
    /\ SubSeq(path, 1, Len(mineru_folder)) = mineru_folder

\* C21: get_mineru_file and get_image never serve a file outside the
\* output root: a request whose resolved path is neither the root nor a
\* descendant of it is rejected, a sibling directory whose name starts with
\* the root's name included.
C21_ServesOnlyWithinRoot ==
    static_op # "none" /\ ~WithinRoot(Resolve(static_path)) =>
        /\ static_response.status # 200
        /\ static_response.served = None

-----------------------------------------------------------------------------
(* Properties of the Translation Client *)

\* empty or whitespace only
AllWhitespace(text) == \A k \in 1..Len(text) : text[k] = " "

\* C10: a call of translate with an empty or whitespace-only text returns
\* the text unchanged, raises nothing, issues no remote call and neither
\* reads nor writes the cache, whatever the credentials and the cache hold.
C10_BlankIsNoOp ==
    [][calls' = calls + 1 /\ AllWhitespace(t_text') =>
          /\ t_ret' = Some(t_text')
          /\ t_err' = ""
          /\ t_remote' = 0
          /\ t_reads' = 0
          /\ t_writes' = 0
          /\ cache' = cache]_vars

\* C10 witness: a whitespace-only text was passed with a credential
\* configured and a cache that holds entries, and came back unchanged.
C10_Witness ==
    /\ calls >= 1
    /\ t_text = <<" ">>
    /\ t_ret = Some(<<" ">>)
    /\ QWEN_API_KEY
    /\ has_cache
    /\ \E k \in CacheKeys : cache[k] # None

\* the last call obtained a non-empty translation from the remote endpoint
\* (no text of the model is its own translation)
RemoteTranslated ==
    /\ calls >= 1
    /\ t_remote = 1
    /\ t_err = ""
    /\ t_ret # None
    /\ t_ret # Some(t_text)

\* C11: after a call of translate that obtained a non-empty translation
\* from the remote endpoint, the next call with the same text and the same
\* target_lang returns that same value and issues no remote call.
C11_SecondCallHitsCache ==
    [][RemoteTranslated /\ calls' = calls + 1
         /\ t_text' = t_text /\ t_lang' = t_lang =>
            /\ t_ret' = t_ret
            /\ t_remote' = 0]_vars

\* C12: on a non-blank text, with neither credential configured and no
\* cache entry for the pair, translate returns the text unchanged, raises
\* nothing, issues no remote call and leaves the cache alone; a remote call
\* uses the primary credential whenever it is configured and the secondary
\* one only when the primary is absent.
C12_CredentialResolution ==
    [][calls' = calls + 1 /\ ~AllWhitespace(t_text') =>
          /\ (~QWEN_API_KEY /\ ~OPENAI_API_KEY
                 /\ cache[get_translation_cache_key(t_text', t_lang')] = None =>
                    /\ t_ret' = Some(t_text')
                    /\ t_err' = ""
                    /\ t_remote' = 0
                    /\ t_writes' = 0
                    /\ cache' = cache)
          /\ (t_remote' = 1 /\ QWEN_API_KEY => t_provider' = "qwen")
          /\ (t_remote' = 1 /\ ~QWEN_API_KEY =>
                 OPENAI_API_KEY /\ t_provider' = "openai")
          /\ (t_remote' = 0 => t_provider' = "none")]_vars

\* C12 witness: a non-blank text was passed with no credential configured
\* and no cache entry for it, and came back unchanged without a remote call.
C12_Witness ==
    /\ calls >= 1
    /\ ~QWEN_API_KEY
    /\ ~OPENAI_API_KEY
    /\ t_text = <<"a">>
    /\ cache[get_translation_cache_key(t_text, t_lang)] = None
    /\ t_ret = Some(<<"a">>)
    /\ t_remote = 0

\* the tests of the classifier in their order, and the category each names
ErrorTests == <<"401", "429", "timeout", "model not found">>
Categories == <<"authentication", "rate-limit", "timeout", "model-not-found">>

\* the category of the first test that the error text passes
FirstCategory(marks) ==
    LET ks == {k \in 1..Len(ErrorTests) : ErrorTests[k] \in marks}
    IN IF ks = {} THEN "generic"
       ELSE Categories[CHOOSE k \in ks : \A j \in ks : k <= j]

\* the last call asked the endpoint and the endpoint answered with an error
RemoteFailed == calls >= 1 /\ t_reply.kind = "error"

\* the failure raised carries the category, nothing is returned, the
\* endpoint was asked once and the cache was not written
FailedOnce ==
    RemoteFailed =>
        /\ t_err = FirstCategory(t_reply.marks)
        /\ t_ret = None
        /\ t_remote = 1
        /\ t_writes = 0

\* a call whose remote call fails leaves the cache as it was
FailedStep == RemoteFailed' /\ calls' = calls + 1 => cache' = cache

\* C24: every failure of the remote call inside translate_with_llm is
\* re-raised as one failure whose message is of one of the five categories
\* authentication, rate-limit, timeout, model-not-found, generic, the first
\* in that order whose test the error text passes; the failed call is not
\* retried, returns no value and does not write to the cache.
C24_FailureClassified == []FailedOnce /\ [][FailedStep]_vars

\* C24 witness: the endpoint's error text passed the rate-limit, timeout
\* and model-not-found tests, and the call raised the rate-limit failure
\* after one remote call.
C24_Witness ==
    /\ calls >= 1
    /\ t_reply = ErrReply({"429", "timeout", "model not found"})
    /\ t_err = "rate-limit"
    /\ t_ret = None
    /\ t_remote = 1

\* the last call asked the endpoint, which answered with a content
\* that is not blank
GotTranslation ==
    /\ t_remote = 1
    /\ t_reply.kind = "ok"
    /\ Strip(t_reply.content) # <<>>

\* one call of translate: the cache is written only with the trimmed
\* non-empty content the endpoint returned, under the key of the call,
\* with an expiry of 24 hours; an empty content gives the text back and no
\* write; a failure comes from the endpoint alone
CacheWriteStep ==
    calls' = calls + 1 =>
        /\ t_writes' = 1 => GotTranslation'
        /\ t_writes' = 1 => t_timeout' = 24 * 3600
        /\ cache' # cache =>
              /\ t_writes' = 1
              /\ cache' = [cache EXCEPT
                             ![get_translation_cache_key(t_text', t_lang')] =
                                 Some(Strip(t_reply'.content))]
        /\ t_remote' = 1 /\ t_reply'.kind = "ok" /\ ~GotTranslation' =>
              /\ t_ret' = Some(t_text')
              /\ t_writes' = 0
              /\ cache' = cache
        /\ t_err' # "" => t_remote' = 1 /\ t_reply'.kind \in {"error", "malformed"}

\* no entry of the cache is the empty string
NoEmptyEntry == \A k \in CacheKeys : cache[k] # Some(<<>>)

\* C25: translate_with_llm writes to the cache only after a remote call
\* that returned a non-empty translation, storing that trimmed translation
\* under the key of the call's (text, target_lang) with a 24-hour expiry;
\* when the remote call returns an empty text the original text is returned
\* and the cache is unchanged, so the cache never holds an empty value; a
\* cache read or write error never makes the call fail.
C25_CacheWrites == []NoEmptyEntry /\ [][CacheWriteStep]_vars

\* C25 witness: the endpoint answered " T" to a call for ("a", "zh") and
\* the cache now holds "T" under that pair's key.
C25_Witness ==
    /\ calls >= 1
    /\ t_text = <<"a">>
    /\ t_lang = <<"z", "h">>
    /\ t_reply = OkReply(<<" ", "T">>)
    /\ t_writes = 1
    /\ t_ret = Some(<<"T">>)
    /\ cache[get_translation_cache_key(t_text, t_lang)] = Some(<<"T">>)

\* the last call returned the value the call before it had obtained from
\* the endpoint and stored, without asking the endpoint itself
ReturnedStoredValue ==
    /\ RemoteTranslated
    /\ t_writes = 1
    /\ cache[get_translation_cache_key(t_text, t_lang)] = t_ret
    /\ calls' = calls + 1
    /\ t_reads' = 1
    /\ t_remote' = 0
    /\ t_ret' = t_ret

\* C28: a value that translate returns from the cache for (text,
\* target_lang) was stored by an earlier call with exactly the same text
\* and the same target_lang: two different pairs never share a cache key,
\* pairs such as ("a_b", "c") and ("a", "b_c") included.
C28_NoSharedKey ==
    [][ReturnedStoredValue => t_text' = t_text /\ t_lang' = t_lang]_vars

====
